---- MODULE Spec2Model ----
(***************************************************************************)
(* Model of contracts/contracts/EscrowContract.sol: the milestone escrow   *)
(* ledger (projects, milestones, disputes, custody balance), its six       *)
(* state-changing entry points, the nonReentrant guard, and the EVM's      *)
(* call semantics for the outbound value transfers: the recipient of a     *)
(* transfer runs arbitrary code before the transfer returns (it may call   *)
(* back into the contract, accept the value, or fail), and a failed        *)
(* require reverts every effect of the enclosing call.                     *)
(***************************************************************************)
EXTENDS Integers, Sequences, FiniteSets, Bags, TLC

\* ---------------------------------------------------------------- bounds
MaxProjects == 2
MaxDisputes == 2
MaxDepth == 2
MaxTx == 9
MaxAmount == 8

\* ---------------------------------------------------------------- inputs
Zero == "0x0"
Addr == {"alice", "bob", "carol"}
\* createProject calls tried: <<msg.sender, _freelancer, _arbitrator,
\* _milestoneAmounts>>.  The first three are accepted (an independent
\* arbitrator, the client as arbitrator, the freelancer as arbitrator), the
\* others violate one require each.  alice and bob are each client of one
\* project and freelancer of another.
CreateInputs ==
  { <<"alice", "bob", "carol", <<3, 1>> >>,
    <<"bob", "alice", "bob", <<1>> >>,
    <<"alice", "bob", "bob", <<1>> >>,
    <<"alice", Zero, "carol", <<1>> >>,
    <<"alice", "bob", Zero, <<1>> >>,
    <<"alice", "bob", "carol", << >> >>,
    <<"alice", "alice", "carol", <<1>> >>,
    <<"bob", "bob", "carol", <<1>> >>,
    <<"alice", "bob", "carol", <<0>> >>,
    <<"alice", "bob", "carol", <<3, 0>> >> }
ProjectIds == 0..MaxProjects
MilestoneIds == 0..2
DisputeIds == 0..MaxDisputes
Values == {1, 3, 4}
Percentages == {0, 50, 100, 101}
\* Milestone amounts and percentages for the arithmetic of the split.
SplitAmounts == 1..MaxAmount
SplitPercentages == 0..100

\* ---------------------------------------------------------------- state
VARIABLES projects, milestones, disputes, projectCounter, disputeCounter,
          balance, entered, received, released, events,
          stack, lastError, txCount

vars == <<projects, milestones, disputes, projectCounter, disputeCounter,
          balance, entered, received, released, events, stack, lastError, txCount>>

OK == "ok"

\* Variant: the budget is the first amount only.
SumSeq_Head(s) == IF s = << >> THEN 0 ELSE Head(s)

RECURSIVE SumSeq(_)
SumSeq(s) == IF s = << >> THEN 0 ELSE Head(s) + SumSeq(Tail(s))

RECURSIVE SumOver(_, _)
SumOver(S, f) ==
  IF S = {} THEN 0
  ELSE LET x == CHOOSE y \in S : TRUE IN f[x] + SumOver(S \ {x}, f)

\* The call in progress whose outbound transfer has not returned yet.
Top == stack[Len(stack)]
Pop == SubSeq(stack, 1, Len(stack) - 1)

\* msg.sender: any account at top level.  During an outbound transfer the
\* recipient's code runs; it can call back itself or call any other contract
\* that calls back, so a re-entrant call can come from any account as well.
Callers == Addr

\* txCount counts the calls that took effect, re-entrant calls included (a
\* reverted call leaves no trace); MaxTx bounds the length of a history.
Transact == txCount < MaxTx /\ txCount' = txCount + 1

\* emit: events is the bag of all events logged so far (a revert takes the
\* reverted call's events out again).
Emit(log, e) == log (+) SetToBag({e})

\* Everything a revert rolls back: contract storage, the guard flag, the
\* value moved by the call, and the events logged by the call.
Storage ==
  [projects |-> projects, milestones |-> milestones, disputes |-> disputes,
   projectCounter |-> projectCounter, disputeCounter |-> disputeCounter,
   balance |-> balance, entered |-> entered, received |-> received,
   released |-> released, events |-> events, txCount |-> txCount]

Restore(s) ==
  /\ projects' = s.projects
  /\ milestones' = s.milestones
  /\ disputes' = s.disputes
  /\ projectCounter' = s.projectCounter
  /\ disputeCounter' = s.disputeCounter
  /\ balance' = s.balance
  /\ entered' = s.entered
  /\ received' = s.received
  /\ released' = s.released
  /\ events' = s.events
  /\ txCount' = s.txCount

\* A call that fails a require with the given reason reverts: nothing of the
\* call persists, so it is no step of the ledger (it is a stuttering step).
\* The reason each entry point gives is computed by its ...Check operator.
Reverted(reason) == FALSE

Init ==
  /\ projects = << >>
  /\ milestones = << >>
  /\ disputes = << >>
  /\ projectCounter = 0
  /\ disputeCounter = 0
  /\ balance = 0
  /\ entered = FALSE
  /\ received = [a \in Addr |-> 0]
  /\ released = << >>
  /\ events = EmptyBag
  /\ stack = << >>
  /\ lastError = OK
  /\ txCount = 0

\* Variant: the arbitrator must be a third party.
CreateProjectCheck_IndependentArbitrator(sender, _freelancer, _arbitrator, _milestoneAmounts) ==
  IF _freelancer = Zero THEN "Invalid freelancer address"
  ELSE IF _arbitrator = Zero THEN "Invalid arbitrator address"
  ELSE IF Len(_milestoneAmounts) = 0 THEN "At least one milestone required"
  ELSE IF _freelancer = sender THEN "Client and freelancer cannot be the same"
  ELSE IF _arbitrator = sender \/ _arbitrator = _freelancer
       THEN "Arbitrator must be independent"
  ELSE IF \E i \in 1..Len(_milestoneAmounts) : _milestoneAmounts[i] = 0
       THEN "Milestone amount must be greater than 0"
  ELSE OK

\* Variant: only the first milestone amount is validated.
CreateProjectCheck_FirstAmount(sender, _freelancer, _arbitrator, _milestoneAmounts) ==
  IF _freelancer = Zero THEN "Invalid freelancer address"
  ELSE IF _arbitrator = Zero THEN "Invalid arbitrator address"
  ELSE IF Len(_milestoneAmounts) = 0 THEN "At least one milestone required"
  ELSE IF _freelancer = sender THEN "Client and freelancer cannot be the same"
  ELSE IF _milestoneAmounts[1] = 0
       THEN "Milestone amount must be greater than 0"
  ELSE OK

\* ------------------------------------------------------- createProject
CreateProjectCheck(sender, _freelancer, _arbitrator, _milestoneAmounts) ==
  IF _freelancer = Zero THEN "Invalid freelancer address"
  ELSE IF _arbitrator = Zero THEN "Invalid arbitrator address"
  ELSE IF Len(_milestoneAmounts) = 0 THEN "At least one milestone required"
  ELSE IF _freelancer = sender THEN "Client and freelancer cannot be the same"
  ELSE IF \E i \in 1..Len(_milestoneAmounts) : _milestoneAmounts[i] = 0
       THEN "Milestone amount must be greater than 0"
  ELSE OK

createProject(sender, _freelancer, _arbitrator, _milestoneAmounts) ==
  LET r == CreateProjectCheck(sender, _freelancer, _arbitrator, _milestoneAmounts)
      projectId == projectCounter
      n == Len(_milestoneAmounts)
  IN
  /\ IF r # OK THEN Reverted(r)
     ELSE
       /\ projectCounter < MaxProjects
       /\ projectCounter' = projectCounter + 1
       /\ projects' = (projectId :> [client |-> sender,
                                     freelancer |-> _freelancer,
                                     arbitrator |-> _arbitrator,
                                     totalBudget |-> SumSeq(_milestoneAmounts),
                                     totalPaid |-> 0,
                                     milestoneCount |-> n,
                                     status |-> "Created"]) @@ projects
       /\ milestones' = (projectId :> [i \in 0..(n - 1) |->
                             [amount |-> _milestoneAmounts[i + 1],
                              status |-> "Pending"]]) @@ milestones
       /\ released' = (projectId :> [i \in 0..(n - 1) |->
                             [freelancer |-> 0, client |-> 0]]) @@ released
       /\ events' = Emit(events, <<"ProjectCreated", projectId>>)
       /\ lastError' = OK
       /\ Transact
       /\ UNCHANGED <<disputes, disputeCounter, balance, entered, received, stack>>

\* ------------------------------------------------------- nonReentrant
\* The guard of fundProject, approveMilestone and resolveDispute: entered is
\* set while one of them executes, and a call that finds it set reverts.
\* Variant: the entry points are not guarded.
NonReentrantCheck_Off == OK

NonReentrantCheck ==
  IF entered THEN "ReentrancyGuardReentrantCall" ELSE OK

\* --------------------------------------------------------- fundProject
\* Variant: the require on msg.value is missing.
FundProjectCheck_AnyAmount(sender, _projectId, value) ==
  IF _projectId \notin DOMAIN projects THEN "Project does not exist"
  ELSE IF projects[_projectId].client # sender THEN "Only client can call this"
  ELSE IF NonReentrantCheck # OK THEN NonReentrantCheck
  ELSE IF projects[_projectId].status # "Created"
       THEN "Project already funded or completed"
  ELSE OK

\* Variant: the require on the project's status is missing.
FundProjectCheck_AnyStatus(sender, _projectId, value) ==
  IF _projectId \notin DOMAIN projects THEN "Project does not exist"
  ELSE IF projects[_projectId].client # sender THEN "Only client can call this"
  ELSE IF NonReentrantCheck # OK THEN NonReentrantCheck
  ELSE IF value # projects[_projectId].totalBudget
       THEN "Amount must match total budget"
  ELSE OK

FundProjectCheck(sender, _projectId, value) ==
  IF _projectId \notin DOMAIN projects THEN "Project does not exist"
  ELSE IF projects[_projectId].client # sender THEN "Only client can call this"
  ELSE IF NonReentrantCheck # OK THEN NonReentrantCheck
  ELSE IF projects[_projectId].status # "Created"
       THEN "Project already funded or completed"
  ELSE IF value # projects[_projectId].totalBudget
       THEN "Amount must match total budget"
  ELSE OK

fundProject(sender, _projectId, value) ==
  LET r == FundProjectCheck(sender, _projectId, value) IN
  IF r # OK THEN Reverted(r)
  ELSE
    /\ projects' = [projects EXCEPT ![_projectId].status = "Funded"]
    /\ balance' = balance + value
    /\ events' = Emit(events, <<"ProjectFunded", _projectId, value>>)
    /\ lastError' = OK
    /\ Transact
    /\ UNCHANGED <<milestones, disputes, projectCounter, disputeCounter,
                   entered, received, released, stack>>

\* Variant: the require on the milestone's status is missing.
SubmitMilestoneCheck_AnyStatus(sender, _projectId, _milestoneId) ==
  IF _projectId \notin DOMAIN projects THEN "Project does not exist"
  ELSE IF _milestoneId \notin DOMAIN milestones[_projectId]
       THEN "Milestone does not exist"
  ELSE IF projects[_projectId].freelancer # sender
       THEN "Only freelancer can call this"
  ELSE IF projects[_projectId].status \notin {"Funded", "Active"}
       THEN "Project not funded"
  ELSE OK

\* ----------------------------------------------------- submitMilestone
SubmitMilestoneCheck(sender, _projectId, _milestoneId) ==
  IF _projectId \notin DOMAIN projects THEN "Project does not exist"
  ELSE IF _milestoneId \notin DOMAIN milestones[_projectId]
       THEN "Milestone does not exist"
  ELSE IF projects[_projectId].freelancer # sender
       THEN "Only freelancer can call this"
  ELSE IF projects[_projectId].status \notin {"Funded", "Active"}
       THEN "Project not funded"
  ELSE IF milestones[_projectId][_milestoneId].status # "Pending"
       THEN "Milestone already submitted or processed"
  ELSE OK

submitMilestone(sender, _projectId, _milestoneId) ==
  LET r == SubmitMilestoneCheck(sender, _projectId, _milestoneId) IN
  IF r # OK THEN Reverted(r)
  ELSE
    /\ milestones' = [milestones EXCEPT
                        ![_projectId][_milestoneId].status = "Submitted"]
    /\ projects' = IF projects[_projectId].status = "Funded"
                   THEN [projects EXCEPT ![_projectId].status = "Active"]
                   ELSE projects
    /\ events' = Emit(events, <<"MilestoneSubmitted", _projectId, _milestoneId>>)
    /\ lastError' = OK
    /\ Transact
    /\ UNCHANGED <<disputes, projectCounter, disputeCounter, balance,
                   entered, received, released, stack>>

\* Variant: the require on the milestone's status is missing.
RaiseDisputeCheck_AnyStatus(sender, _projectId, _milestoneId) ==
  IF _projectId \notin DOMAIN projects THEN "Project does not exist"
  ELSE IF _milestoneId \notin DOMAIN milestones[_projectId]
       THEN "Milestone does not exist"
  ELSE IF sender # projects[_projectId].client
          /\ sender # projects[_projectId].freelancer
       THEN "Only client or freelancer can raise dispute"
  ELSE IF projects[_projectId].status # "Active" THEN "Project not active"
  ELSE OK

\* Variant: the require on the caller is missing.
RaiseDisputeCheck_AnyCaller(sender, _projectId, _milestoneId) ==
  IF _projectId \notin DOMAIN projects THEN "Project does not exist"
  ELSE IF _milestoneId \notin DOMAIN milestones[_projectId]
       THEN "Milestone does not exist"
  ELSE IF projects[_projectId].status # "Active" THEN "Project not active"
  ELSE IF milestones[_projectId][_milestoneId].status # "Submitted"
       THEN "Milestone must be submitted to dispute"
  ELSE OK

\* -------------------------------------------------------- raiseDispute
RaiseDisputeCheck(sender, _projectId, _milestoneId) ==
  IF _projectId \notin DOMAIN projects THEN "Project does not exist"
  ELSE IF _milestoneId \notin DOMAIN milestones[_projectId]
       THEN "Milestone does not exist"
  ELSE IF sender # projects[_projectId].client
          /\ sender # projects[_projectId].freelancer
       THEN "Only client or freelancer can raise dispute"
  ELSE IF projects[_projectId].status # "Active" THEN "Project not active"
  ELSE IF milestones[_projectId][_milestoneId].status # "Submitted"
       THEN "Milestone must be submitted to dispute"
  ELSE OK

raiseDispute(sender, _projectId, _milestoneId) ==
  LET r == RaiseDisputeCheck(sender, _projectId, _milestoneId)
      disputeId == disputeCounter
  IN
  IF r # OK THEN Reverted(r)
  ELSE
    /\ disputeCounter < MaxDisputes
    /\ milestones' = [milestones EXCEPT
                        ![_projectId][_milestoneId].status = "Disputed"]
    /\ disputeCounter' = disputeCounter + 1
    /\ disputes' = (disputeId :> [projectId |-> _projectId,
                                  milestoneId |-> _milestoneId,
                                  raisedBy |-> sender,
                                  resolved |-> FALSE]) @@ disputes
    /\ events' = Emit(events, <<"DisputeRaised", disputeId, _projectId,
                               _milestoneId, sender>>)
    /\ lastError' = OK
    /\ Transact
    /\ UNCHANGED <<projects, projectCounter, balance, entered, received,
                   released, stack>>

\* ------------------------------------------- outbound value transfers
\* address.call{value: amount}(""): the value moves first, then the
\* recipient's code runs; the caller's frame waits on the stack until the
\* transfer returns.  A transfer of more than the contract holds fails.
Frame(fn, sender, pid, mid, did, fAmt, cAmt, leg, to, amount, saved) ==
  [fn |-> fn, sender |-> sender, projectId |-> pid, milestoneId |-> mid,
   disputeId |-> did, freelancerAmount |-> fAmt, clientAmount |-> cAmt,
   leg |-> leg, to |-> to, amount |-> amount, saved |-> saved]

\* The require message that guards each transfer.
TransferError(fn, leg) ==
  IF fn = "approveMilestone" THEN "Payment transfer failed"
  ELSE IF leg = "freelancer" THEN "Freelancer payment failed"
  ELSE "Client refund failed"

\* ---------------------------------------------------- approveMilestone
\* Variant: the require on the milestone's status is missing.
ApproveMilestoneCheck_NoStatus(sender, _projectId, _milestoneId) ==
  IF _projectId \notin DOMAIN projects THEN "Project does not exist"
  ELSE IF _milestoneId \notin DOMAIN milestones[_projectId]
       THEN "Milestone does not exist"
  ELSE IF projects[_projectId].client # sender THEN "Only client can call this"
  ELSE IF NonReentrantCheck # OK THEN NonReentrantCheck
  ELSE IF projects[_projectId].status # "Active" THEN "Project not active"
  ELSE OK

ApproveMilestoneCheck(sender, _projectId, _milestoneId) ==
  IF _projectId \notin DOMAIN projects THEN "Project does not exist"
  ELSE IF _milestoneId \notin DOMAIN milestones[_projectId]
       THEN "Milestone does not exist"
  ELSE IF projects[_projectId].client # sender THEN "Only client can call this"
  ELSE IF NonReentrantCheck # OK THEN NonReentrantCheck
  ELSE IF projects[_projectId].status # "Active" THEN "Project not active"
  ELSE IF milestones[_projectId][_milestoneId].status # "Submitted"
       THEN "Milestone not submitted"
  ELSE OK

\* The effects of _releaseMilestonePayment that precede its transfer, applied
\* to the milestone table ms and project table ps.
ReleaseCheck(ms, _projectId, _milestoneId) ==
  IF ms[_projectId][_milestoneId].status # "Approved"
  THEN "Milestone not approved" ELSE OK

\* Variant: the release step leaves the milestone's status as it found it.
ReleaseMilestones_Approved(ms, _projectId, _milestoneId) == ms

ReleaseMilestones(ms, _projectId, _milestoneId) ==
  [ms EXCEPT ![_projectId][_milestoneId].status = "Paid"]

\* Variant: the payment is not added to totalPaid.
ReleaseProjects_Keep(ps, ms, _projectId, _milestoneId) == ps

\* Variant: the payment is deducted from the budget.
ReleaseProjects_Deduct(ps, ms, _projectId, _milestoneId) ==
  [ps EXCEPT ![_projectId].totalBudget = @ - ms[_projectId][_milestoneId].amount]

ReleaseProjects(ps, ms, _projectId, _milestoneId) ==
  [ps EXCEPT ![_projectId].totalPaid = @ + ms[_projectId][_milestoneId].amount]

approveMilestone(sender, _projectId, _milestoneId) ==
  LET r == ApproveMilestoneCheck(sender, _projectId, _milestoneId) IN
  IF r # OK THEN Reverted(r)
  ELSE
    LET approved == [milestones EXCEPT
                       ![_projectId][_milestoneId].status = "Approved"]
        r2 == ReleaseCheck(approved, _projectId, _milestoneId)
        amount == milestones[_projectId][_milestoneId].amount
        to == projects[_projectId].freelancer
    IN
    IF r2 # OK THEN Reverted(r2)
    ELSE IF amount > balance
    THEN Reverted(TransferError("approveMilestone", "freelancer"))
    ELSE
      /\ Len(stack) < MaxDepth
      /\ entered' = TRUE
      /\ milestones' = ReleaseMilestones(approved, _projectId, _milestoneId)
      /\ projects' = ReleaseProjects(projects, approved, _projectId, _milestoneId)
      /\ balance' = balance - amount
      /\ received' = [received EXCEPT ![to] = @ + amount]
      /\ released' = [released EXCEPT
                        ![_projectId][_milestoneId].freelancer = @ + amount]
      /\ events' = Emit(events, <<"MilestoneApproved", _projectId,
                                 _milestoneId, amount>>)
      /\ stack' = Append(stack, Frame("approveMilestone", sender, _projectId,
                                      _milestoneId, 0, amount, 0,
                                      "freelancer", to, amount, Storage))
      /\ lastError' = OK
      /\ Transact
      /\ UNCHANGED <<disputes, projectCounter, disputeCounter>>


\* Variant: the project is completed by any payment.
CompletionCheck_Always(ps, _projectId) ==
  [ps EXCEPT ![_projectId].status = "Completed"]

\* Completion check made at the end of both payment paths.
CompletionCheck(ps, _projectId) ==
  IF ps[_projectId].totalPaid = ps[_projectId].totalBudget
  THEN [ps EXCEPT ![_projectId].status = "Completed"]
  ELSE ps

\* Variant: every payment logs the completion event.
CompletionEvents_Always(log, ps, _projectId) ==
  Emit(log, <<"ProjectCompleted", _projectId>>)

CompletionEvents(log, ps, _projectId) ==
  IF ps[_projectId].totalPaid = ps[_projectId].totalBudget
  THEN Emit(log, <<"ProjectCompleted", _projectId>>)
  ELSE log

\* Variant: the require on dispute.resolved is missing.
ResolveDisputeCheck_NoResolved(sender, _disputeId, _freelancerPercentage) ==
  IF NonReentrantCheck # OK THEN NonReentrantCheck
  ELSE IF _disputeId \notin DOMAIN disputes THEN "Dispute does not exist"
  ELSE IF sender # projects[disputes[_disputeId].projectId].arbitrator
       THEN "Only arbitrator can resolve"
  ELSE IF milestones[disputes[_disputeId].projectId]
                    [disputes[_disputeId].milestoneId].status # "Disputed"
       THEN "Milestone not disputed"
  ELSE IF _freelancerPercentage > 100 THEN "Percentage must be 0-100"
  ELSE OK

\* Variant: the require on msg.sender is missing.
ResolveDisputeCheck_AnyCaller(sender, _disputeId, _freelancerPercentage) ==
  IF NonReentrantCheck # OK THEN NonReentrantCheck
  ELSE IF _disputeId \notin DOMAIN disputes THEN "Dispute does not exist"
  ELSE IF disputes[_disputeId].resolved THEN "Dispute already resolved"
  ELSE IF milestones[disputes[_disputeId].projectId]
                    [disputes[_disputeId].milestoneId].status # "Disputed"
       THEN "Milestone not disputed"
  ELSE IF _freelancerPercentage > 100 THEN "Percentage must be 0-100"
  ELSE OK

\* Variant: the require on the percentage is missing.
ResolveDisputeCheck_AnyPercentage(sender, _disputeId, _freelancerPercentage) ==
  IF NonReentrantCheck # OK THEN NonReentrantCheck
  ELSE IF _disputeId \notin DOMAIN disputes THEN "Dispute does not exist"
  ELSE IF disputes[_disputeId].resolved THEN "Dispute already resolved"
  ELSE IF sender # projects[disputes[_disputeId].projectId].arbitrator
       THEN "Only arbitrator can resolve"
  ELSE IF milestones[disputes[_disputeId].projectId]
                    [disputes[_disputeId].milestoneId].status # "Disputed"
       THEN "Milestone not disputed"
  ELSE OK

\* ------------------------------------------------------ resolveDispute
ResolveDisputeCheck(sender, _disputeId, _freelancerPercentage) ==
  IF NonReentrantCheck # OK THEN NonReentrantCheck
  ELSE IF _disputeId \notin DOMAIN disputes THEN "Dispute does not exist"
  ELSE IF disputes[_disputeId].resolved THEN "Dispute already resolved"
  ELSE IF sender # projects[disputes[_disputeId].projectId].arbitrator
       THEN "Only arbitrator can resolve"
  ELSE IF milestones[disputes[_disputeId].projectId]
                    [disputes[_disputeId].milestoneId].status # "Disputed"
       THEN "Milestone not disputed"
  ELSE IF _freelancerPercentage > 100 THEN "Percentage must be 0-100"
  ELSE OK

\* Variant: the freelancer's share is rounded up.
FreelancerAmount_RoundUp(amount, _freelancerPercentage) ==
  (amount * _freelancerPercentage + 99) \div 100

FreelancerAmount(amount, _freelancerPercentage) ==
  (amount * _freelancerPercentage) \div 100

\* Variant: the client's share is computed from the complementary percentage.
ClientAmount_Rounded(amount, _freelancerPercentage) ==
  (amount * (100 - _freelancerPercentage)) \div 100

ClientAmount(amount, _freelancerPercentage) ==
  amount - FreelancerAmount(amount, _freelancerPercentage)

\* Variant: every resolution that is not a full payment counts as a refund.
ResolvedStatus_FullOnly(amount, freelancerAmount) ==
  IF freelancerAmount = amount THEN "Paid" ELSE "Refunded"

\* "Update milestone status": the three branches on freelancerAmount.
ResolvedStatus(amount, freelancerAmount) ==
  IF freelancerAmount = amount THEN "Paid"
  ELSE IF freelancerAmount = 0 THEN "Refunded"
  ELSE "Paid"

\* Variant: the whole amount of a resolved milestone counts as paid.
ResolvedPaid_Disbursed(amount, freelancerAmount) == amount

ResolvedPaid(amount, freelancerAmount) ==
  IF freelancerAmount = amount THEN amount
  ELSE IF freelancerAmount = 0 THEN 0
  ELSE freelancerAmount

\* The end of resolveDispute, after its last transfer: the resolution event,
\* the completion check, and the release of the guard.
ResolveFinish(f, ps, log) ==
  /\ projects' = CompletionCheck(ps, f.projectId)
  /\ events' = CompletionEvents(
                  Emit(log, <<"DisputeResolved", f.disputeId, f.projectId,
                              f.milestoneId, f.freelancerAmount, f.clientAmount>>),
                  ps, f.projectId)
  /\ entered' = FALSE
  /\ lastError' = OK

resolveDispute(sender, _disputeId, _freelancerPercentage) ==
  LET r == ResolveDisputeCheck(sender, _disputeId, _freelancerPercentage)
      projectId == disputes[_disputeId].projectId
      milestoneId == disputes[_disputeId].milestoneId
      amount == milestones[projectId][milestoneId].amount
      freelancerAmount == FreelancerAmount(amount, _freelancerPercentage)
      clientAmount == ClientAmount(amount, _freelancerPercentage)
      leg == IF freelancerAmount > 0 THEN "freelancer" ELSE "client"
      to == IF freelancerAmount > 0 THEN projects[projectId].freelancer
            ELSE projects[projectId].client
      value == IF freelancerAmount > 0 THEN freelancerAmount ELSE clientAmount
      ps == [projects EXCEPT ![projectId].totalPaid =
                               @ + ResolvedPaid(amount, freelancerAmount)]
      ms == [milestones EXCEPT ![projectId][milestoneId].status =
                                 ResolvedStatus(amount, freelancerAmount)]
      ds == [disputes EXCEPT ![_disputeId].resolved = TRUE]
      f == Frame("resolveDispute", sender, projectId, milestoneId,
                 _disputeId, freelancerAmount, clientAmount, leg, to, value,
                 Storage)
  IN
  IF r # OK THEN Reverted(r)
  ELSE IF value = 0
  THEN \* neither transfer is made
       /\ disputes' = ds
       /\ milestones' = ms
       /\ ResolveFinish(f, ps, events)
       /\ Transact
       /\ UNCHANGED <<projectCounter, disputeCounter, balance, received,
                      released, stack>>
  ELSE IF value > balance
  THEN Reverted(TransferError("resolveDispute", leg))
  ELSE
    /\ Len(stack) < MaxDepth
    /\ entered' = TRUE
    /\ disputes' = ds
    /\ milestones' = ms
    /\ projects' = ps
    /\ balance' = balance - value
    /\ received' = [received EXCEPT ![to] = @ + value]
    /\ released' = [released EXCEPT ![projectId][milestoneId][leg] = @ + value]
    /\ events' = events
    /\ stack' = Append(stack, f)
    /\ lastError' = OK
    /\ Transact
    /\ UNCHANGED <<projectCounter, disputeCounter>>

\* --------------------------------------------- return of a transfer
\* require(success, ...) when the transfer failed: the call that made the
\* transfer reverts, and with it everything done since it was entered
\* (its own effects, the value it sent, and the effects of re-entrant calls).
\* Variant: the result of the transfer is not checked; the value returns to
\* the contract and the call ends as if it had paid.
TransferFailed_Unchecked(f) ==
  /\ balance' = balance + f.amount
  /\ received' = [received EXCEPT ![f.to] = @ - f.amount]
  /\ released' = [released EXCEPT ![f.projectId][f.milestoneId][f.leg] = @ - f.amount]
  /\ entered' = FALSE
  /\ stack' = Pop
  /\ lastError' = OK
  /\ UNCHANGED <<projects, milestones, disputes, projectCounter,
                 disputeCounter, events, txCount>>

TransferFailed(f) ==
  /\ Restore(f.saved)
  /\ stack' = Pop
  /\ lastError' = TransferError(f.fn, f.leg)

\* The recipient's code fails (or refuses the value).
TransferFails ==
  /\ stack # << >>
  /\ TransferFailed(Top)

\* The recipient accepts the value; the waiting call continues after its
\* require(success, ...).
TransferSucceeds ==
  /\ stack # << >>
  /\ LET f == Top
         client == projects[f.projectId].client
     IN
     IF f.fn = "approveMilestone"
     THEN /\ projects' = CompletionCheck(projects, f.projectId)
          /\ events' = CompletionEvents(
                          Emit(events, <<"MilestonePaid", f.projectId,
                                         f.milestoneId, f.to, f.amount>>),
                          projects, f.projectId)
          /\ entered' = FALSE
          /\ stack' = Pop
          /\ lastError' = OK
          /\ txCount' = txCount
          /\ UNCHANGED <<milestones, disputes, projectCounter, disputeCounter,
                         balance, received, released>>
     ELSE IF f.leg = "freelancer" /\ f.clientAmount > 0
     THEN IF f.clientAmount > balance
          THEN TransferFailed([f EXCEPT !.leg = "client"])
          ELSE /\ balance' = balance - f.clientAmount
               /\ received' = [received EXCEPT ![client] = @ + f.clientAmount]
               /\ released' = [released EXCEPT
                                 ![f.projectId][f.milestoneId].client =
                                     @ + f.clientAmount]
               /\ stack' = [stack EXCEPT ![Len(stack)] =
                              [f EXCEPT !.leg = "client", !.to = client,
                                        !.amount = f.clientAmount]]
               /\ UNCHANGED <<projects, milestones, disputes, projectCounter,
                              disputeCounter, entered, events, lastError,
                              txCount>>
     ELSE /\ ResolveFinish(f, projects, events)
          /\ stack' = Pop
          /\ txCount' = txCount
          /\ UNCHANGED <<milestones, disputes, projectCounter, disputeCounter,
                         balance, received, released>>

\* ------------------------------------------------------ view functions
\* The modifiers projectExists and milestoneExists.
ProjectExistsCheck(_projectId) ==
  IF _projectId \notin DOMAIN projects THEN "Project does not exist" ELSE OK

MilestoneExistsCheck(_projectId, _milestoneId) ==
  IF _milestoneId \notin DOMAIN milestones[_projectId]
  THEN "Milestone does not exist" ELSE OK

GetProjectDetailsCheck(_projectId) == ProjectExistsCheck(_projectId)

getProjectDetails(_projectId) ==
  LET project == projects[_projectId] IN
  <<project.client, project.freelancer, project.arbitrator,
    project.totalBudget, project.totalPaid, project.milestoneCount,
    project.status>>

GetMilestoneDetailsCheck(_projectId, _milestoneId) ==
  IF ProjectExistsCheck(_projectId) # OK THEN ProjectExistsCheck(_projectId)
  ELSE MilestoneExistsCheck(_projectId, _milestoneId)

getMilestoneDetails(_projectId, _milestoneId) ==
  LET milestone == milestones[_projectId][_milestoneId] IN
  <<milestone.amount, milestone.status>>

\* The subtraction is checked: it panics when totalPaid exceeds totalBudget.
GetProjectBalanceCheck(_projectId) ==
  IF ProjectExistsCheck(_projectId) # OK THEN ProjectExistsCheck(_projectId)
  ELSE IF projects[_projectId].totalPaid > projects[_projectId].totalBudget
       THEN "Panic(0x11)"
  ELSE OK

\* Variant: the query returns the budget.
getProjectBalance_Budget(_projectId) == projects[_projectId].totalBudget

getProjectBalance(_projectId) ==
  projects[_projectId].totalBudget - projects[_projectId].totalPaid

getContractBalance == balance

Next ==
  \/ \E in \in CreateInputs :
        in[1] \in Callers /\ createProject(in[1], in[2], in[3], in[4])
  \/ \E sender \in Callers, p \in ProjectIds, v \in Values :
        fundProject(sender, p, v)
  \/ \E sender \in Callers, p \in ProjectIds, m \in MilestoneIds :
        submitMilestone(sender, p, m)
  \/ \E sender \in Callers, p \in ProjectIds, m \in MilestoneIds :
        approveMilestone(sender, p, m)
  \/ \E sender \in Callers, p \in ProjectIds, m \in MilestoneIds :
        raiseDispute(sender, p, m)
  \/ \E sender \in Callers, d \in DisputeIds, pct \in Percentages :
        resolveDispute(sender, d, pct)
  \/ TransferSucceeds
  \/ TransferFails

Spec == Init /\ [][Next]_vars

\* ------------------------------------------------- dispute resolution alone
\* The ledger after createProject(bob, carol, [a]) by alice, fundProject(0)
\* with value a, submitMilestone(0, 0) by bob and raiseDispute(0, 0) by alice,
\* for every amount a: one open dispute on the only milestone.
SplitInit ==
  \E a \in SplitAmounts :
    /\ projects = (0 :> [client |-> "alice", freelancer |-> "bob",
                         arbitrator |-> "carol", totalBudget |-> a,
                         totalPaid |-> 0, milestoneCount |-> 1,
                         status |-> "Active"])
    /\ milestones = (0 :> [i \in 0..0 |-> [amount |-> a, status |-> "Disputed"]])
    /\ disputes = (0 :> [projectId |-> 0, milestoneId |-> 0,
                         raisedBy |-> "alice", resolved |-> FALSE])
    /\ projectCounter = 1
    /\ disputeCounter = 1
    /\ balance = a
    /\ entered = FALSE
    /\ received = [x \in Addr |-> 0]
    /\ released = (0 :> [i \in 0..0 |-> [freelancer |-> 0, client |-> 0]])
    /\ events = SetToBag({ <<"ProjectCreated", 0>>, <<"ProjectFunded", 0, a>>,
                           <<"MilestoneSubmitted", 0, 0>>,
                           <<"DisputeRaised", 0, 0, 0, "alice">> })
    /\ stack = << >>
    /\ lastError = OK
    /\ txCount = 4

\* resolveDispute with every percentage, and the return of its transfers.
SplitNext ==
  \/ \E sender \in Callers, pct \in SplitPercentages :
        resolveDispute(sender, 0, pct)
  \/ TransferSucceeds
  \/ TransferFails

SplitSpec == SplitInit /\ [][SplitNext]_vars

\* ------------------------------------------- the undisputed path alone
\* The calls project p still needs to be completed without a dispute:
\* fundProject if it is Created, submitMilestone and approveMilestone for
\* every Pending milestone, approveMilestone for every Submitted one.
TxNeeded(p) ==
  (IF projects[p].status = "Created" THEN 1 ELSE 0)
  + SumOver(DOMAIN milestones[p],
            [m \in DOMAIN milestones[p] |->
               IF milestones[p][m].status = "Pending" THEN 2
               ELSE IF milestones[p][m].status = "Submitted" THEN 1
               ELSE 0])

\* createProject, as long as the history bounded by MaxTx has room for the
\* new project's own calls after those of the projects already created.
LiveCreateProject(sender, _freelancer, _arbitrator, _milestoneAmounts) ==
  /\ txCount + SumOver(DOMAIN projects, [p \in DOMAIN projects |-> TxNeeded(p)])
       + 2 + 2 * Len(_milestoneAmounts) <= MaxTx
  /\ createProject(sender, _freelancer, _arbitrator, _milestoneAmounts)

\* No dispute is raised and every outbound transfer succeeds.
LiveNext ==
  \/ \E in \in CreateInputs :
        in[1] \in Callers /\ LiveCreateProject(in[1], in[2], in[3], in[4])
  \/ \E sender \in Callers, p \in ProjectIds, v \in Values :
        fundProject(sender, p, v)
  \/ \E sender \in Callers, p \in ProjectIds, m \in MilestoneIds :
        submitMilestone(sender, p, m)
  \/ \E sender \in Callers, p \in ProjectIds, m \in MilestoneIds :
        approveMilestone(sender, p, m)
  \/ TransferSucceeds

\* The client funds and approves and the freelancer submits whenever the
\* contract would accept it, and a transfer in progress returns.
LiveFairness ==
  /\ \A p \in ProjectIds :
       WF_vars(\E sender \in Callers, v \in Values : fundProject(sender, p, v))
  /\ \A p \in ProjectIds, m \in MilestoneIds :
       /\ WF_vars(\E sender \in Callers : submitMilestone(sender, p, m))
       /\ WF_vars(\E sender \in Callers : approveMilestone(sender, p, m))
  /\ WF_vars(TransferSucceeds)

LiveSpec == Init /\ [][LiveNext]_vars /\ LiveFairness

\* ---------------------------------------------------------------- claims
Quiescent == stack = << >>

ReleasedTotal(p, m) == released[p][m].freelancer + released[p][m].client

ReleasedOfProject(p) ==
  SumOver(DOMAIN milestones[p], [m \in DOMAIN milestones[p] |-> ReleasedTotal(p, m)])

Remaining(p) == projects[p].totalBudget - projects[p].totalPaid

Terminal(p, m) == milestones[p][m].status \in {"Paid", "Refunded"}

FullyResolved(p) ==
  \/ projects[p].status = "Completed"
  \/ \A m \in DOMAIN milestones[p] : Terminal(p, m)

\* C1 -- The value that has left the ledger on account of one milestone never
\* exceeds the milestone's amount, and every decrease of the custodied
\* balance is the transfer of an approveMilestone called by the project's
\* client or of a resolveDispute called by the project's arbitrator, paid on
\* account of that call's milestone.
C1_NoDoublePayment ==
  \A p \in DOMAIN projects : \A m \in DOMAIN milestones[p] :
     ReleasedTotal(p, m) <= milestones[p][m].amount

C1_AuthorizedRelease ==
  balance' < balance =>
    /\ stack' # << >>
    /\ LET f == stack'[Len(stack')] IN
       /\ \/ f.fn = "approveMilestone" /\ f.sender = projects[f.projectId].client
          \/ f.fn = "resolveDispute" /\ f.sender = projects[f.projectId].arbitrator
       /\ balance - balance' =
            (released'[f.projectId][f.milestoneId].freelancer
               + released'[f.projectId][f.milestoneId].client)
            - ReleasedTotal(f.projectId, f.milestoneId)
       /\ \A p \in DOMAIN projects : \A m \in DOMAIN milestones[p] :
            <<p, m>> # <<f.projectId, f.milestoneId>> =>
               released'[p][m] = released[p][m]

C1_Theorem == [](C1_NoDoublePayment) /\ [][C1_AuthorizedRelease]_vars

\* Two milestones of one project have both been paid out in full, one by an
\* approval and one by a dispute resolution.
C1_Witness ==
  /\ Quiescent
  /\ \E p \in DOMAIN projects :
       /\ 0 \in DOMAIN milestones[p] /\ 1 \in DOMAIN milestones[p]
       /\ \A m \in {0, 1} : ReleasedTotal(p, m) = milestones[p][m].amount
       /\ \E m \in {0, 1} : released[p][m].client > 0

C3_Claim ==
  Quiescent =>
    SumOver({p \in DOMAIN projects : projects[p].status = "Active"},
            [p \in DOMAIN projects |-> Remaining(p)]) <= balance

\* C4 -- For every project, 0 <= totalPaid <= totalBudget.
C4_Theorem ==
  \A p \in DOMAIN projects :
     0 <= projects[p].totalPaid /\ projects[p].totalPaid <= projects[p].totalBudget

\* A project paid in part and a project paid in full.
C4_Witness ==
  \E p, q \in DOMAIN projects :
     /\ 0 < projects[p].totalPaid /\ projects[p].totalPaid < projects[p].totalBudget
     /\ projects[q].totalPaid = projects[q].totalBudget

\* C5 -- After every completed operation, a project is Completed if and
\* only if its totalPaid equals its totalBudget.
C5_Theorem ==
  Quiescent =>
    \A p \in DOMAIN projects :
       projects[p].status = "Completed" <=>
          projects[p].totalPaid = projects[p].totalBudget

\* A Completed project next to an Active one that has been paid in part.
C5_Witness ==
  /\ Quiescent
  /\ \E p, q \in DOMAIN projects :
       /\ projects[p].status = "Completed"
       /\ projects[q].status = "Active" /\ projects[q].totalPaid > 0


\* A successful call of any entry point by account a.
CallBy(a) ==
  \/ \E in \in CreateInputs :
        in[1] = a /\ createProject(in[1], in[2], in[3], in[4])
  \/ \E p \in ProjectIds, v \in Values : fundProject(a, p, v)
  \/ \E p \in ProjectIds, m \in MilestoneIds : submitMilestone(a, p, m)
  \/ \E p \in ProjectIds, m \in MilestoneIds : approveMilestone(a, p, m)
  \/ \E p \in ProjectIds, m \in MilestoneIds : raiseDispute(a, p, m)
  \/ \E d \in DisputeIds, pct \in Percentages : resolveDispute(a, d, pct)

\* A successful call of one of the three guarded entry points by account a.
GuardedCallBy(a) ==
  \/ \E p \in ProjectIds, v \in Values : fundProject(a, p, v)
  \/ \E p \in ProjectIds, m \in MilestoneIds : approveMilestone(a, p, m)
  \/ \E d \in DisputeIds, pct \in Percentages : resolveDispute(a, d, pct)

InTransfer(fn) == stack # << >> /\ Top.fn = fn

\* C6 -- While the transfer of approveMilestone is in progress, no call of a
\* ledger operation by the counterparty (the recipient) succeeds.
C6_Claim == [][InTransfer("approveMilestone") => ~CallBy(Top.to)]_vars

\* C7 -- While a guarded operation is executing (its transfer is in
\* progress), every call of fundProject, approveMilestone or resolveDispute,
\* by any account and on any project, is rejected, and no step of the ledger
\* is such a call.
C7_Rejected ==
  stack # << >> =>
    \A a \in Addr :
      /\ \A p \in ProjectIds, v \in Values : FundProjectCheck(a, p, v) # OK
      /\ \A p \in ProjectIds, m \in MilestoneIds :
            ApproveMilestoneCheck(a, p, m) # OK
      /\ \A d \in DisputeIds, pct \in Percentages :
            ResolveDisputeCheck(a, d, pct) # OK

C7_NoGuardedStep ==
  stack # << >> => \A a \in Addr : ~GuardedCallBy(a)

C7_Theorem == [](C7_Rejected) /\ [][C7_NoGuardedStep]_vars

\* During a transfer, the recipient is the client of another project, which
\* is still unfunded: its fundProject with the exact budget is stopped by the
\* guard alone; and some account's approveMilestone of a Submitted milestone
\* of an Active project is stopped by the guard alone.
C7_Witness ==
  /\ stack # << >>
  /\ \E p \in DOMAIN projects :
       /\ p # Top.projectId
       /\ projects[p].status = "Created"
       /\ FundProjectCheck(Top.to, p, projects[p].totalBudget)
             = "ReentrancyGuardReentrantCall"
  /\ \E p \in DOMAIN projects : \E m \in DOMAIN milestones[p] :
       /\ projects[p].status = "Active"
       /\ milestones[p][m].status = "Submitted"
       /\ ApproveMilestoneCheck(projects[p].client, p, m)
             = "ReentrancyGuardReentrantCall"

\* C8 -- In approveMilestone and resolveDispute nothing is written to the
\* ledger (projects, milestones, disputes) after an outbound transfer has
\* returned.
C8_Claim ==
  [][TransferSucceeds => UNCHANGED <<projects, milestones, disputes>>]_vars

\* C9 -- When the transfer of approveMilestone fails, the call is undone: the
\* milestone is Submitted again, the project's totalPaid and status and the
\* custodied balance are what they were before the call, none of its events
\* remains, and the same call is accepted again.
C9_Undone ==
  (InTransfer("approveMilestone") /\ TransferFails) =>
    LET f == Top
        p == f.projectId
        m == f.milestoneId
    IN
    /\ lastError' = "Payment transfer failed"
    /\ milestones'[p][m].status = "Submitted"
    /\ projects'[p].status = "Active"
    /\ projects'[p].totalPaid = projects[p].totalPaid - f.amount
    /\ balance' = balance + f.amount
    /\ received' = [received EXCEPT ![f.to] = @ - f.amount]
    /\ ~BagIn(<<"MilestoneApproved", p, m, f.amount>>, events')
    /\ ~BagIn(<<"MilestonePaid", p, m, f.to, f.amount>>, events')
    /\ projects' = f.saved.projects
    /\ milestones' = f.saved.milestones
    /\ disputes' = f.saved.disputes
    /\ events' = f.saved.events
    /\ stack' = Pop
    /\ \E a \in Addr, q \in ProjectIds, n \in MilestoneIds :
          /\ a = f.sender /\ q = p /\ n = m
          /\ (ApproveMilestoneCheck(a, q, n) = OK)'

C9_Theorem == [][C9_Undone]_vars

\* An approveMilestone has just failed in its transfer, and its milestone
\* can be approved again.
C9_Witness ==
  /\ Quiescent
  /\ lastError = "Payment transfer failed"
  /\ \E p \in DOMAIN projects : \E m \in DOMAIN milestones[p] :
       /\ milestones[p][m].status = "Submitted"
       /\ ReleasedTotal(p, m) = 0
       /\ ApproveMilestoneCheck(projects[p].client, p, m) = OK

\* C10 -- When either transfer of resolveDispute fails, the call is undone:
\* the dispute is unresolved, the milestone Disputed, totalPaid what it was
\* before the call, and neither party keeps any value of the call (a
\* counterparty transfer already made is taken back).
C10_Undone ==
  (InTransfer("resolveDispute") /\ TransferFails) =>
    LET f == Top
        p == f.projectId
        m == f.milestoneId
        sent == IF f.leg = "client" THEN f.freelancerAmount + f.clientAmount
                ELSE f.freelancerAmount
    IN
    /\ lastError' = (IF f.leg = "client" THEN "Client refund failed"
                     ELSE "Freelancer payment failed")
    /\ ~disputes'[f.disputeId].resolved
    /\ milestones'[p][m].status = "Disputed"
    /\ projects'[p].totalPaid =
          projects[p].totalPaid - ResolvedPaid(milestones[p][m].amount,
                                               f.freelancerAmount)
    /\ balance' = balance + sent
    /\ SumOver(Addr, received') = SumOver(Addr, received) - sent
    /\ released'[p][m] = [freelancer |-> 0, client |-> 0]
    /\ received' = f.saved.received
    /\ projects' = f.saved.projects
    /\ milestones' = f.saved.milestones
    /\ disputes' = f.saved.disputes
    /\ events' = f.saved.events
    /\ stack' = Pop
    /\ \E a \in Addr, d \in DisputeIds, pct \in Percentages :
          /\ a = f.sender /\ d = f.disputeId
          /\ (ResolveDisputeCheck(a, d, pct) = OK)'

C10_Theorem == [][C10_Undone]_vars

\* A resolveDispute has just failed in its refund to the client; the dispute
\* is open and nothing has been paid out for its milestone.
C10_Witness ==
  /\ Quiescent
  /\ lastError = "Client refund failed"
  /\ \E d \in DOMAIN disputes :
       /\ ~disputes[d].resolved
       /\ milestones[disputes[d].projectId][disputes[d].milestoneId].status
             = "Disputed"
       /\ ReleasedTotal(disputes[d].projectId, disputes[d].milestoneId) = 0
       /\ milestones[disputes[d].projectId][disputes[d].milestoneId].amount = 3

\* A dispute whose resolveDispute has returned successfully.
Resolved(d) == Quiescent /\ d \in DOMAIN disputes /\ disputes[d].resolved

\* C11 -- A dispute is resolved at most once: once resolveDispute(d, p) has
\* succeeded, resolveDispute(d, q) is rejected for every caller and every q
\* (outside any other call, with "Dispute already resolved"), no step of the
\* ledger is a resolveDispute of d, the value released for its milestone does
\* not change any more, and the resolved flag stays true.
C11_Rejected ==
  \A d \in DisputeIds :
    Resolved(d) =>
      \A a \in Addr, q \in Percentages :
        ResolveDisputeCheck(a, d, q) = "Dispute already resolved"

C11_Once ==
  \A d \in DisputeIds :
    Resolved(d) =>
      /\ \A a \in Addr, q \in Percentages : ~resolveDispute(a, d, q)
      /\ disputes'[d] = disputes[d]
      /\ released'[disputes[d].projectId][disputes[d].milestoneId] =
            released[disputes[d].projectId][disputes[d].milestoneId]

C11_Theorem == [](C11_Rejected) /\ [][C11_Once]_vars

\* A resolved dispute of a project whose arbitrator calls resolveDispute on
\* it again, while the project holds funds of other milestones.
C11_Witness ==
  \E d \in DOMAIN disputes :
    /\ Resolved(d)
    /\ balance > 0
    /\ projects[disputes[d].projectId].status = "Active"
    /\ ResolveDisputeCheck(projects[disputes[d].projectId].arbitrator, d, 50)
          = "Dispute already resolved"

\* C12 -- For every milestone amount > 0 and every percentage in 0..100,
\* resolveDispute computes freelancerAmount = floor(amount * percentage / 100)
\* and clientAmount = amount - freelancerAmount: the two sum to the amount
\* exactly, also when amount * percentage is not a multiple of 100.
C12_Split ==
  \A a \in Addr, d \in DisputeIds, pct \in SplitPercentages :
    resolveDispute(a, d, pct) =>
      LET amount == milestones[disputes[d].projectId]
                              [disputes[d].milestoneId].amount
          f == stack'[Len(stack')]
      IN
      /\ stack' # << >>
      /\ f.freelancerAmount * 100 <= amount * pct
      /\ amount * pct < (f.freelancerAmount + 1) * 100
      /\ f.clientAmount = amount - f.freelancerAmount
      /\ f.freelancerAmount + f.clientAmount = amount
      /\ f.freelancerAmount >= 0 /\ f.clientAmount >= 0

C12_Paid ==
  \A d \in DisputeIds :
    Resolved(d) =>
      ReleasedTotal(disputes[d].projectId, disputes[d].milestoneId)
        = milestones[disputes[d].projectId][disputes[d].milestoneId].amount

C12_Theorem == [][C12_Split]_vars /\ [](C12_Paid)

\* A dispute on a milestone of amount 7 resolved with 3 to the freelancer and
\* 4 to the client: 7 * percentage is a multiple of 100 for no percentage
\* strictly between 0 and 100.
C12_Witness ==
  /\ Resolved(0)
  /\ milestones[0][0].amount = 7
  /\ released[0][0] = [freelancer |-> 3, client |-> 4]

\* C13 -- Every mutating operation on an existing project is rejected for a
\* caller that is not in the required role: fundProject and approveMilestone
\* are accepted only from the project's client, submitMilestone only from its
\* freelancer, raiseDispute only from its client or freelancer, resolveDispute
\* only from the arbitrator of the dispute's project; and every step of the
\* ledger that is one of these calls has such a caller.
C13_Rejected ==
  \A a \in Addr :
    /\ \A p \in DOMAIN projects :
         /\ a # projects[p].client =>
              /\ \A v \in Values : FundProjectCheck(a, p, v) # OK
              /\ \A m \in MilestoneIds : ApproveMilestoneCheck(a, p, m) # OK
         /\ a # projects[p].freelancer =>
              \A m \in MilestoneIds : SubmitMilestoneCheck(a, p, m) # OK
         /\ (a # projects[p].client /\ a # projects[p].freelancer) =>
              \A m \in MilestoneIds : RaiseDisputeCheck(a, p, m) # OK
    /\ \A d \in DOMAIN disputes :
         a # projects[disputes[d].projectId].arbitrator =>
           \A pct \in Percentages : ResolveDisputeCheck(a, d, pct) # OK

C13_Callers ==
  \A a \in Addr :
    /\ \A p \in ProjectIds, v \in Values :
         fundProject(a, p, v) => a = projects[p].client
    /\ \A p \in ProjectIds, m \in MilestoneIds :
         /\ approveMilestone(a, p, m) => a = projects[p].client
         /\ submitMilestone(a, p, m) => a = projects[p].freelancer
         /\ raiseDispute(a, p, m) =>
              a \in {projects[p].client, projects[p].freelancer}
    /\ \A d \in DisputeIds, pct \in Percentages :
         resolveDispute(a, d, pct) =>
           a = projects[disputes[d].projectId].arbitrator

C13_Theorem == [](C13_Rejected) /\ [][C13_Callers]_vars

\* The calls of account a on project p that only the role check stops.
WrongClient(a, p, m) ==
  /\ FundProjectCheck(a, p, projects[p].totalBudget) = "Only client can call this"
  /\ ApproveMilestoneCheck(a, p, m) = "Only client can call this"

\* A project whose client, freelancer and arbitrator are three accounts, with
\* a Submitted milestone and an open dispute, and an unfunded project with an
\* unrelated account: in each, the call of the right role passes every check
\* and the same call of each other account is stopped by the role check.
C13_Witness ==
  /\ Quiescent
  /\ \E p \in DOMAIN projects : \E m \in DOMAIN milestones[p] :
       LET c == projects[p].client
           f == projects[p].freelancer
           r == projects[p].arbitrator
       IN
       /\ Cardinality({c, f, r}) = 3
       /\ ApproveMilestoneCheck(c, p, m) = OK
       /\ WrongClient(f, p, m) /\ WrongClient(r, p, m)
       /\ RaiseDisputeCheck(c, p, m) = OK /\ RaiseDisputeCheck(f, p, m) = OK
       /\ RaiseDisputeCheck(r, p, m) = "Only client or freelancer can raise dispute"
       /\ SubmitMilestoneCheck(c, p, m) = "Only freelancer can call this"
       /\ SubmitMilestoneCheck(r, p, m) = "Only freelancer can call this"
       /\ \E d \in DOMAIN disputes :
            /\ disputes[d].projectId = p
            /\ ResolveDisputeCheck(r, d, 50) = OK
            /\ ResolveDisputeCheck(c, d, 50) = "Only arbitrator can resolve"
            /\ ResolveDisputeCheck(f, d, 50) = "Only arbitrator can resolve"
  /\ \E p \in DOMAIN projects : \E a \in Addr :
       /\ a \notin {projects[p].client, projects[p].freelancer,
                    projects[p].arbitrator}
       /\ FundProjectCheck(projects[p].client, p, projects[p].totalBudget) = OK
       /\ FundProjectCheck(a, p, projects[p].totalBudget)
             = "Only client can call this"
       /\ FundProjectCheck(projects[p].freelancer, p, projects[p].totalBudget)
             = "Only client can call this"

\* The milestone of dispute d.
DisputedMilestone(ms, d) == ms[disputes[d].projectId][disputes[d].milestoneId]

\* C14 (as claimed) -- A successful resolveDispute moves the milestone to
\* Refunded exactly when freelancerPercentage is 0, and to Paid for every
\* freelancerPercentage in 1..100, whatever the positive amount.
C14_Original ==
  [][\A a \in Addr, d \in DisputeIds, pct \in SplitPercentages :
       resolveDispute(a, d, pct) =>
         DisputedMilestone(milestones', d).status =
           (IF pct = 0 THEN "Refunded" ELSE "Paid")]_vars

\* C14 -- A successful resolveDispute moves the milestone to Refunded exactly
\* when the freelancer's share floor(amount * freelancerPercentage / 100) is
\* 0, and to Paid otherwise; the status stays so once the call has returned.
C14_ByShare ==
  \A a \in Addr, d \in DisputeIds, pct \in SplitPercentages :
    resolveDispute(a, d, pct) =>
      DisputedMilestone(milestones', d).status =
        (IF (DisputedMilestone(milestones, d).amount * pct) \div 100 = 0
         THEN "Refunded" ELSE "Paid")

C14_Final ==
  \A d \in DisputeIds :
    Resolved(d) =>
      DisputedMilestone(milestones, d).status =
        (IF released[disputes[d].projectId][disputes[d].milestoneId].freelancer = 0
         THEN "Refunded" ELSE "Paid")

C14_Amended == [][C14_ByShare]_vars /\ [](C14_Final)

\* A dispute on a milestone of amount 8 resolved with a share of 1 for the
\* freelancer (a percentage in 13..24): the milestone is Paid.
C14_Witness ==
  /\ Resolved(0)
  /\ milestones[0][0].amount = 8
  /\ released[0][0] = [freelancer |-> 1, client |-> 7]
  /\ milestones[0][0].status = "Paid"

\* C15 -- A successful resolveDispute(d, p) on a milestone of amount a sends
\* exactly floor(a * p / 100) to the freelancer and a - floor(a * p / 100) to
\* the client, makes no transfer of 0, lowers the custodied balance by exactly
\* a and raises the project's totalPaid by exactly floor(a * p / 100).
\* The call starts with the shares fixed from a and p ...
C15_Start ==
  \A a \in Addr, d \in DisputeIds, pct \in SplitPercentages :
    resolveDispute(a, d, pct) =>
      LET amount == DisputedMilestone(milestones, d).amount
          f == stack'[Len(stack')]
      IN
      /\ f.freelancerAmount = (amount * pct) \div 100
      /\ f.clientAmount = amount - (amount * pct) \div 100
      /\ f.saved.balance = balance /\ f.saved.received = received
      /\ f.saved.projects = projects

\* ... and when it returns, the shares have been delivered.
C15_Return ==
  (InTransfer("resolveDispute") /\ TransferSucceeds /\ stack' = Pop) =>
    LET f == Top
        s == f.saved
        p == f.projectId
        amount == s.milestones[p][f.milestoneId].amount
    IN
    /\ received'[projects[p].freelancer] =
          s.received[projects[p].freelancer] + f.freelancerAmount
    /\ received'[projects[p].client] =
          s.received[projects[p].client] + f.clientAmount
    /\ balance' = s.balance - amount
    /\ projects'[p].totalPaid = s.projects[p].totalPaid + f.freelancerAmount
    /\ f.freelancerAmount = 0 => projects'[p].totalPaid = s.projects[p].totalPaid
    /\ BagIn(<<"DisputeResolved", f.disputeId, p, f.milestoneId,
               f.freelancerAmount, f.clientAmount>>, events')

C15_NoZeroTransfer == stack # << >> => Top.amount > 0

C15_Theorem ==
  [][C15_Start]_vars /\ [][C15_Return]_vars /\ [](C15_NoZeroTransfer)

\* A dispute on a milestone of amount 5 resolved with 60%: 3 to the
\* freelancer, 2 to the client, nothing left in custody, totalPaid 3.
C15_Witness ==
  /\ Resolved(0)
  /\ milestones[0][0].amount = 5
  /\ received["bob"] = 3 /\ received["alice"] = 2
  /\ balance = 0
  /\ projects[0].totalPaid = 3

\* C16 -- For every project, whenever no call is in progress, totalPaid equals
\* the value sent out of the ledger for the project's milestones, payments
\* to the freelancer and refunds to the client together.
C16_Claim ==
  Quiescent =>
    \A p \in DOMAIN projects : projects[p].totalPaid = ReleasedOfProject(p)

\* A dispute of project p has been resolved with a client share > 0.
ClientRefunded(p) ==
  /\ Quiescent
  /\ p \in DOMAIN projects
  /\ \E m \in DOMAIN milestones[p] : released[p][m].client > 0

Completed(p) == p \in DOMAIN projects /\ projects[p].status = "Completed"

\* C17 -- Once a dispute of a project has been resolved with a client share
\* > 0, the project is not Completed in that state nor in any later state,
\* also when all its milestones are Paid or Refunded.
C17_Theorem ==
  \A p \in ProjectIds : [](ClientRefunded(p) => [](~Completed(p)))

\* A project all of whose milestones are Paid or Refunded, one of them by a
\* dispute with a client share, and another paid by approveMilestone: the
\* project is still Active.
C17_Witness ==
  \E p \in DOMAIN projects :
    /\ ClientRefunded(p)
    /\ \A m \in DOMAIN milestones[p] : Terminal(p, m)
    /\ \E m \in DOMAIN milestones[p] :
         released[p][m] = [freelancer |-> milestones[p][m].amount, client |-> 0]
    /\ projects[p].status = "Active"

\* C18 -- For a project in status Created and outside any other call,
\* fundProject by the client with a value other than totalBudget (larger or
\* smaller) is rejected with "Amount must match total budget" and with
\* exactly totalBudget it is accepted; every fundProject step carries exactly
\* totalBudget, sets the status from Created to Funded and raises the
\* custodied balance by exactly totalBudget.
C18_Check ==
  \A p \in DOMAIN projects :
    (Quiescent /\ projects[p].status = "Created") =>
      \A v \in Values :
        FundProjectCheck(projects[p].client, p, v) =
          (IF v = projects[p].totalBudget THEN OK
           ELSE "Amount must match total budget")

C18_Funding ==
  \A a \in Addr, p \in ProjectIds, v \in Values :
    fundProject(a, p, v) =>
      /\ v = projects[p].totalBudget
      /\ projects[p].status = "Created"
      /\ projects'[p].status = "Funded"
      /\ balance' = balance + projects[p].totalBudget
      /\ BagIn(<<"ProjectFunded", p, v>>, events')

C18_Theorem == [](C18_Check) /\ [][C18_Funding]_vars

\* One project has been funded with its budget of 4, which is now in
\* custody; for another, unfunded project of budget 1 the values 3 and 4 are
\* rejected; the first project's budget had the smaller values 1 and 3.
C18_Witness ==
  /\ Quiescent
  /\ balance = 4
  /\ \E p \in DOMAIN projects :
       /\ projects[p].status = "Funded" /\ projects[p].totalBudget = 4
       /\ BagIn(<<"ProjectFunded", p, 4>>, events)
  /\ \E p \in DOMAIN projects :
       /\ projects[p].status = "Created" /\ projects[p].totalBudget = 1
       /\ FundProjectCheck(projects[p].client, p, 3)
             = "Amount must match total budget"
       /\ FundProjectCheck(projects[p].client, p, 4)
             = "Amount must match total budget"
       /\ FundProjectCheck(projects[p].client, p, 1) = OK

\* The value deposited for project p: the values of its ProjectFunded events.
Deposited(p) ==
  SumOver(Values,
          [v \in Values |-> v * CopiesIn(<<"ProjectFunded", p, v>>, events)])

\* C19 -- A project is funded at most once: fundProject is accepted only in
\* status Created, is rejected for every caller and value in status Funded,
\* Active or Completed, and the value deposited for a project is 0 (while it
\* is Created) or exactly its totalBudget (afterwards).
C19_Rejected ==
  \A p \in DOMAIN projects :
    projects[p].status # "Created" =>
      /\ \A a \in Addr, v \in Values : FundProjectCheck(a, p, v) # OK
      /\ Quiescent =>
           \A v \in Values :
             FundProjectCheck(projects[p].client, p, v)
               = "Project already funded or completed"

C19_Deposited ==
  \A p \in DOMAIN projects :
    Deposited(p) = (IF projects[p].status = "Created" THEN 0
                    ELSE projects[p].totalBudget)

C19_Once ==
  \A a \in Addr, p \in ProjectIds, v \in Values :
    fundProject(a, p, v) => (projects[p].status = "Created" /\ Deposited(p) = 0)

C19_Theorem == [](C19_Rejected /\ C19_Deposited) /\ [][C19_Once]_vars

\* A funded project of budget 4, part of which has been paid out, and a
\* project that has been completed: the client's fundProject with the exact
\* budget is rejected for both.
C19_Witness ==
  /\ Quiescent
  /\ \E p \in DOMAIN projects :
       /\ projects[p].status = "Active" /\ projects[p].totalBudget = 4
       /\ projects[p].totalPaid > 0
       /\ Deposited(p) = 4
       /\ FundProjectCheck(projects[p].client, p, 4)
             = "Project already funded or completed"
  /\ \E p \in DOMAIN projects :
       /\ projects[p].status = "Completed"
       /\ Deposited(p) = projects[p].totalBudget
       /\ FundProjectCheck(projects[p].client, p, projects[p].totalBudget)
             = "Project already funded or completed"

\* The createProject calls the claim wants rejected.
InvalidCreate(in) ==
  \/ in[2] = Zero
  \/ in[2] = in[1]
  \/ in[3] = Zero
  \/ in[4] = << >>
  \/ \E i \in DOMAIN in[4] : in[4][i] = 0

\* C20 -- createProject is rejected when the freelancer is the zero address
\* or the caller, the arbitrator is the zero address, the milestone list is
\* empty or any amount in it is 0; no step of the ledger is such a call, and
\* the project counter, the projects and the milestones grow only by an
\* accepted createProject, together and by one project.
C20_Rejected ==
  \A in \in CreateInputs :
    InvalidCreate(in) => CreateProjectCheck(in[1], in[2], in[3], in[4]) # OK

C20_Whole ==
  /\ \A in \in CreateInputs :
       createProject(in[1], in[2], in[3], in[4]) =>
         /\ ~InvalidCreate(in)
         /\ projectCounter' = projectCounter + 1
         /\ DOMAIN projects' = DOMAIN projects \cup {projectCounter}
         /\ DOMAIN milestones'[projectCounter] = 0..(Len(in[4]) - 1)
  /\ (projectCounter' > projectCounter
        \/ DOMAIN projects' \ DOMAIN projects # {}
        \/ DOMAIN milestones' \ DOMAIN milestones # {}) =>
       \E in \in CreateInputs :
         ~InvalidCreate(in) /\ createProject(in[1], in[2], in[3], in[4])

C20_Counted ==
  /\ DOMAIN projects = 0..(projectCounter - 1)
  /\ DOMAIN milestones = DOMAIN projects
  /\ \A p \in DOMAIN projects :
       /\ DOMAIN milestones[p] = 0..(projects[p].milestoneCount - 1)
       /\ \A m \in DOMAIN milestones[p] : milestones[p][m].amount > 0
       /\ projects[p].freelancer \notin {Zero, projects[p].client}
       /\ projects[p].arbitrator # Zero

C20_Theorem == [](C20_Rejected /\ C20_Counted) /\ [][C20_Whole]_vars

\* One project exists and another could be created; each invalid call is
\* stopped by its require, the amount 0 also behind a valid first amount.
C20_Witness ==
  /\ projectCounter = 1 /\ projectCounter < MaxProjects
  /\ DOMAIN projects = {0}
  /\ CreateProjectCheck("alice", Zero, "carol", <<1>>)
        = "Invalid freelancer address"
  /\ CreateProjectCheck("alice", "bob", Zero, <<1>>)
        = "Invalid arbitrator address"
  /\ CreateProjectCheck("alice", "bob", "carol", << >>)
        = "At least one milestone required"
  /\ CreateProjectCheck("alice", "alice", "carol", <<1>>)
        = "Client and freelancer cannot be the same"
  /\ CreateProjectCheck("alice", "bob", "carol", <<0>>)
        = "Milestone amount must be greater than 0"
  /\ CreateProjectCheck("alice", "bob", "carol", <<3, 0>>)
        = "Milestone amount must be greater than 0"

\* C21 -- An accepted createProject takes the id projectCounter, which is the
\* number of projects created before (ids 0, 1, 2, ... with no gap, each
\* created once); the new project has client = caller, the given freelancer
\* and arbitrator, totalBudget = the sum of the amounts, totalPaid = 0,
\* milestoneCount = the number of amounts and status Created; its milestones
\* are exactly the indices below milestoneCount, each Pending with its
\* amount; the projects that existed are not touched.
C21_Created ==
  \A in \in CreateInputs :
    createProject(in[1], in[2], in[3], in[4]) =>
      LET id == projectCounter
          n == Len(in[4])
          ms == milestones'[id]
      IN
      /\ id = Cardinality(DOMAIN projects)
      /\ id \notin DOMAIN projects
      /\ projectCounter' = id + 1
      /\ projects'[id].client = in[1]
      /\ projects'[id].freelancer = in[2]
      /\ projects'[id].arbitrator = in[3]
      /\ projects'[id].totalBudget =
            SumOver(DOMAIN ms, [i \in DOMAIN ms |-> ms[i].amount])
      /\ projects'[id].totalPaid = 0
      /\ projects'[id].milestoneCount = n
      /\ projects'[id].status = "Created"
      /\ DOMAIN ms = {i \in MilestoneIds : i < n}
      /\ \A i \in DOMAIN ms : ms[i] = [amount |-> in[4][i + 1], status |-> "Pending"]
      /\ \A p \in DOMAIN projects :
           projects'[p] = projects[p] /\ milestones'[p] = milestones[p]
      /\ BagIn(<<"ProjectCreated", id>>, events')

C21_Dense ==
  /\ DOMAIN projects = {p \in ProjectIds : p < projectCounter}
  /\ \A p \in DOMAIN projects :
       /\ CopiesIn(<<"ProjectCreated", p>>, events) = 1
       /\ DOMAIN milestones[p] = {i \in MilestoneIds : i < projects[p].milestoneCount}

C21_Theorem == [][C21_Created]_vars /\ [](C21_Dense)

\* Two projects created: id 0 with amounts [3, 1] by alice, then id 1 with
\* amount [1] by bob.
C21_Witness ==
  /\ projectCounter = 2
  /\ projects[0] = [client |-> "alice", freelancer |-> "bob",
                    arbitrator |-> "carol", totalBudget |-> 4, totalPaid |-> 0,
                    milestoneCount |-> 2, status |-> "Created"]
  /\ milestones[0] = [i \in 0..1 |->
                        [amount |-> IF i = 0 THEN 3 ELSE 1, status |-> "Pending"]]
  /\ projects[1].client = "bob" /\ projects[1].totalBudget = 1
  /\ DOMAIN milestones[1] = {0}

\* Every milestone other than milestone m of project p is as before.
OtherMilestonesUnchanged(p, m) ==
  /\ DOMAIN milestones' = DOMAIN milestones
  /\ \A q \in DOMAIN milestones :
       /\ DOMAIN milestones'[q] = DOMAIN milestones[q]
       /\ \A n \in DOMAIN milestones[q] :
            (q # p \/ n # m) => milestones'[q][n] = milestones[q][n]

\* C22 -- submitMilestone is accepted exactly when the caller is the
\* project's freelancer, the project is Funded or Active and the milestone is
\* Pending; it sets the milestone to Submitted, makes a Funded project Active
\* and leaves an Active project Active, and changes no other milestone, no
\* other field of any project, no dispute and no balance.
C22_Accepted ==
  \A a \in Addr : \A p \in DOMAIN projects : \A m \in DOMAIN milestones[p] :
    (SubmitMilestoneCheck(a, p, m) = OK) <=>
      /\ a = projects[p].freelancer
      /\ projects[p].status \in {"Funded", "Active"}
      /\ milestones[p][m].status = "Pending"

C22_Effect ==
  \A a \in Addr, p \in ProjectIds, m \in MilestoneIds :
    submitMilestone(a, p, m) =>
      /\ a = projects[p].freelancer
      /\ projects[p].status \in {"Funded", "Active"}
      /\ milestones[p][m].status = "Pending"
      /\ milestones'[p][m] = [milestones[p][m] EXCEPT !.status = "Submitted"]
      /\ projects' = [projects EXCEPT ![p].status = "Active"]
      /\ OtherMilestonesUnchanged(p, m)
      /\ disputes' = disputes
      /\ balance' = balance /\ received' = received
      /\ BagIn(<<"MilestoneSubmitted", p, m>>, events')

C22_Theorem == [](C22_Accepted) /\ [][C22_Effect]_vars

\* One project is Active by the submission of its first milestone and its
\* second milestone can be submitted; another project is Funded and its
\* first submission is due.
C22_Witness ==
  /\ Quiescent
  /\ \E p \in DOMAIN projects : \E m, n \in DOMAIN milestones[p] :
       /\ projects[p].status = "Active"
       /\ milestones[p][m].status = "Submitted"
       /\ BagIn(<<"MilestoneSubmitted", p, m>>, events)
       /\ SubmitMilestoneCheck(projects[p].freelancer, p, n) = OK
       /\ SubmitMilestoneCheck(projects[p].freelancer, p, m)
             = "Milestone already submitted or processed"
  /\ \E p \in DOMAIN projects :
       /\ projects[p].status = "Funded"
       /\ SubmitMilestoneCheck(projects[p].freelancer, p, 0) = OK

ApprovedEvent(f) == <<"MilestoneApproved", f.projectId, f.milestoneId, f.amount>>
PaidEvent(f) == <<"MilestonePaid", f.projectId, f.milestoneId, f.to, f.amount>>

\* C23 -- approveMilestone is accepted from the client on a Submitted
\* milestone of an Active project; when it returns, the milestone is Paid,
\* totalPaid is higher by exactly the milestone's amount, the freelancer has
\* received exactly that amount, the custodied balance is lower by it; the
\* approval event is logged before the transfer and the payment event after it.
C23_Start ==
  \A a \in Addr, p \in ProjectIds, m \in MilestoneIds :
    approveMilestone(a, p, m) =>
      /\ a = projects[p].client
      /\ projects[p].status = "Active"
      /\ milestones[p][m].status = "Submitted"
      /\ stack' # << >>
      /\ LET f == stack'[Len(stack')] IN
         /\ f.to = projects[p].freelancer
         /\ f.amount = milestones[p][m].amount
         /\ f.saved.projects = projects /\ f.saved.balance = balance
         /\ f.saved.received = received
         /\ CopiesIn(ApprovedEvent(f), events')
               = CopiesIn(ApprovedEvent(f), events) + 1

C23_Return ==
  (InTransfer("approveMilestone") /\ TransferSucceeds) =>
    LET f == Top
        s == f.saved
        p == f.projectId
        amount == s.milestones[p][f.milestoneId].amount
    IN
    /\ milestones'[p][f.milestoneId].status = "Paid"
    /\ milestones'[p][f.milestoneId].amount = amount
    /\ projects'[p].totalPaid = s.projects[p].totalPaid + amount
    /\ received'[projects[p].freelancer] =
          s.received[projects[p].freelancer] + amount
    /\ balance' = s.balance - amount
    /\ BagIn(ApprovedEvent(f), events)
    /\ ~BagIn(PaidEvent(f), events)
    /\ BagIn(PaidEvent(f), events')
    /\ stack' = Pop

C23_InFlight ==
  InTransfer("approveMilestone") =>
    /\ BagIn(ApprovedEvent(Top), events)
    /\ ~BagIn(PaidEvent(Top), events)

C23_Theorem ==
  [][C23_Start]_vars /\ [][C23_Return]_vars /\ [](C23_InFlight)

\* The first milestone (amount 3) of a project of budget 4 has been approved
\* and paid: totalPaid 3, bob has 3, 1 is left in custody, both events logged.
C23_Witness ==
  /\ Quiescent
  /\ \E p \in DOMAIN projects :
       /\ projects[p].totalBudget = 4 /\ projects[p].totalPaid = 3
       /\ projects[p].status = "Active"
       /\ milestones[p][0] = [amount |-> 3, status |-> "Paid"]
       /\ received[projects[p].freelancer] = 3
       /\ balance = 1
       /\ BagIn(<<"MilestoneApproved", p, 0, 3>>, events)
       /\ BagIn(<<"MilestonePaid", p, 0, projects[p].freelancer, 3>>, events)

Completions(log, p) == CopiesIn(<<"ProjectCompleted", p>>, log)

HasDispute(p) == \E d \in DOMAIN disputes : disputes[d].projectId = p

\* C24 -- The completion event of a project is logged at most once; it is
\* logged by the return of the approveMilestone or resolveDispute of that
\* project whose payment has brought totalPaid from below totalBudget to
\* totalBudget, together with the status Completed; and a project without
\* disputes is Completed exactly when all its milestones have been paid.
C24_Once ==
  \A p \in DOMAIN projects :
    /\ Completions(events, p) <= 1
    /\ Completions(events, p) = 1 <=> projects[p].status = "Completed"
    /\ projects[p].status = "Completed" =>
         projects[p].totalPaid = projects[p].totalBudget
    /\ (Quiescent /\ ~HasDispute(p)) =>
         (projects[p].status = "Completed" <=>
            \A m \in DOMAIN milestones[p] : milestones[p][m].status = "Paid")

C24_Emitted ==
  \A p \in DOMAIN projects :
    Completions(events', p) > Completions(events, p) =>
      /\ TransferSucceeds
      /\ Top.projectId = p
      /\ Top.fn \in {"approveMilestone", "resolveDispute"}
      /\ stack' = Pop
      /\ Top.saved.projects[p].totalPaid < projects[p].totalBudget
      /\ projects'[p].totalPaid = projects'[p].totalBudget
      /\ projects[p].status = "Active" /\ projects'[p].status = "Completed"

C24_Theorem == [](C24_Once) /\ [][C24_Emitted]_vars

\* A project of two milestones, both approved and paid, no dispute:
\* Completed, with one completion event and two payment events.
C24_Witness ==
  /\ Quiescent
  /\ \E p \in DOMAIN projects :
       /\ ~HasDispute(p)
       /\ projects[p].milestoneCount = 2
       /\ projects[p].status = "Completed"
       /\ Completions(events, p) = 1
       /\ \A m \in DOMAIN milestones[p] :
            BagIn(<<"MilestonePaid", p, m, projects[p].freelancer,
                    milestones[p][m].amount>>, events)

\* C25 -- For a project that has been funded (Funded, or Active by another
\* submission), outside any other call, approveMilestone by the client on a
\* milestone that has not been submitted is rejected with
\* "Milestone not submitted".
C25_Claim ==
  Quiescent =>
    \A p \in DOMAIN projects : \A m \in DOMAIN milestones[p] :
      (projects[p].status \in {"Funded", "Active"}
         /\ milestones[p][m].status = "Pending") =>
        ApproveMilestoneCheck(projects[p].client, p, m) = "Milestone not submitted"

\* C26 -- raiseDispute is accepted exactly from the project's client or
\* freelancer on a Submitted milestone of an Active project; it sets the
\* milestone to Disputed and creates the dispute with id disputeCounter, the
\* number of disputes raised before (ids 0, 1, 2, ... across all projects),
\* with the milestone's projectId and milestoneId, raisedBy = caller and
\* resolved = false; it changes nothing else and moves no funds.
C26_Accepted ==
  \A a \in Addr : \A p \in DOMAIN projects : \A m \in DOMAIN milestones[p] :
    (RaiseDisputeCheck(a, p, m) = OK) <=>
      /\ a \in {projects[p].client, projects[p].freelancer}
      /\ projects[p].status = "Active"
      /\ milestones[p][m].status = "Submitted"

C26_Effect ==
  \A a \in Addr, p \in ProjectIds, m \in MilestoneIds :
    raiseDispute(a, p, m) =>
      LET id == disputeCounter IN
      /\ a \in {projects[p].client, projects[p].freelancer}
      /\ projects[p].status = "Active"
      /\ milestones[p][m].status = "Submitted"
      /\ milestones'[p][m] = [milestones[p][m] EXCEPT !.status = "Disputed"]
      /\ OtherMilestonesUnchanged(p, m)
      /\ id = Cardinality(DOMAIN disputes) /\ id \notin DOMAIN disputes
      /\ disputeCounter' = id + 1
      /\ DOMAIN disputes' = DOMAIN disputes \cup {id}
      /\ disputes'[id] = [projectId |-> p, milestoneId |-> m,
                          raisedBy |-> a, resolved |-> FALSE]
      /\ \A d \in DOMAIN disputes : disputes'[d] = disputes[d]
      /\ projects' = projects
      /\ balance' = balance /\ received' = received /\ released' = released
      /\ BagIn(<<"DisputeRaised", id, p, m, a>>, events')

C26_Dense ==
  /\ DOMAIN disputes = {d \in DisputeIds : d < disputeCounter}
  /\ \A d \in DOMAIN disputes :
       /\ disputes[d].projectId \in DOMAIN projects
       /\ disputes[d].milestoneId \in DOMAIN milestones[disputes[d].projectId]
       /\ disputes[d].raisedBy \in {projects[disputes[d].projectId].client,
                                    projects[disputes[d].projectId].freelancer}

C26_Theorem == [](C26_Accepted /\ C26_Dense) /\ [][C26_Effect]_vars

\* Two open disputes, ids 0 and 1, on milestones of two different projects,
\* one raised by a client and one by a freelancer; all funds are in custody.
C26_Witness ==
  /\ Quiescent
  /\ disputeCounter = 2
  /\ disputes[0].projectId # disputes[1].projectId
  /\ \E d, e \in DOMAIN disputes :
       /\ disputes[d].raisedBy = projects[disputes[d].projectId].client
       /\ disputes[e].raisedBy = projects[disputes[e].projectId].freelancer
       /\ disputes[e].raisedBy # projects[disputes[e].projectId].client
  /\ \A d \in DOMAIN disputes :
       /\ ~disputes[d].resolved
       /\ DisputedMilestone(milestones, d).status = "Disputed"
  /\ balance = SumOver(DOMAIN projects,
                       [p \in DOMAIN projects |-> projects[p].totalBudget])

\* The milestones as of the last state with no call in progress: what a
\* failing transfer falls back to.
CommittedMilestones ==
  IF stack = << >> THEN milestones ELSE stack[1].saved.milestones

\* Milestone m of project p changes from status s to status t in a step that
\* is the matching call by the matching party.
AllowedChange(p, m, s, t) ==
  \/ /\ s = "Pending" /\ t = "Submitted"
     /\ submitMilestone(projects[p].freelancer, p, m)
  \/ /\ s = "Submitted" /\ t = "Paid"
     /\ approveMilestone(projects[p].client, p, m)
  \/ /\ s = "Submitted" /\ t = "Disputed"
     /\ \/ raiseDispute(projects[p].client, p, m)
        \/ raiseDispute(projects[p].freelancer, p, m)
  \/ /\ s = "Disputed" /\ t \in {"Paid", "Refunded"}
     /\ \E d \in DOMAIN disputes, pct \in Percentages :
          /\ disputes[d].projectId = p /\ disputes[d].milestoneId = m
          /\ resolveDispute(projects[p].arbitrator, d, pct)

MilestoneRank(s) ==
  CASE s = "Pending" -> 0
    [] s = "Submitted" -> 1
    [] s \in {"Approved", "Disputed"} -> 2
    [] s \in {"Paid", "Refunded"} -> 3

\* C27 -- Every change of a milestone's status made by a call is
\* Pending -> Submitted by the freelancer's submitMilestone, Submitted -> Paid
\* by the client's approveMilestone, Submitted -> Disputed by a raiseDispute
\* of the client or the freelancer, or Disputed -> Paid / Refunded by the
\* arbitrator's resolveDispute; the only other change is the undoing of a
\* call whose transfer failed, which restores the statuses the call started
\* from.  Between states with no call in progress a milestone never moves
\* back, and one that is Paid or Refunded never changes.
C27_Changes ==
  \A p \in DOMAIN milestones \cap DOMAIN milestones' :
    \A m \in DOMAIN milestones[p] :
    milestones'[p][m].status # milestones[p][m].status =>
      IF TransferFails
      THEN milestones'[p][m].status = Top.saved.milestones[p][m].status
      ELSE AllowedChange(p, m, milestones[p][m].status, milestones'[p][m].status)

C27_Forward ==
  \A p \in DOMAIN CommittedMilestones :
    \A m \in DOMAIN CommittedMilestones[p] :
      /\ MilestoneRank(CommittedMilestones'[p][m].status)
            >= MilestoneRank(CommittedMilestones[p][m].status)
      /\ CommittedMilestones[p][m].status \in {"Paid", "Refunded"} =>
           /\ CommittedMilestones'[p][m] = CommittedMilestones[p][m]
           /\ milestones[p][m] = CommittedMilestones[p][m]
           /\ milestones'[p][m] = CommittedMilestones[p][m]

C27_Statuses ==
  \A p \in DOMAIN milestones : \A m \in DOMAIN milestones[p] :
    milestones[p][m].status \in
      {"Pending", "Submitted", "Disputed", "Paid", "Refunded"}

C27_Theorem ==
  [][C27_Changes]_vars /\ [][C27_Forward]_vars /\ [](C27_Statuses)

\* A project with one milestone Refunded by a dispute and the other Paid by
\* an approval.
C27_Witness ==
  /\ Quiescent
  /\ \E p \in DOMAIN projects : \E m, n \in DOMAIN milestones[p] :
       /\ milestones[p][m].status = "Refunded"
       /\ milestones[p][n].status = "Paid"
       /\ released[p][n].freelancer = milestones[p][n].amount
       /\ released[p][m].client = milestones[p][m].amount

CommittedProjects ==
  IF stack = << >> THEN projects ELSE stack[1].saved.projects

ProjectRank(s) ==
  CASE s = "Created" -> 0
    [] s = "Funded" -> 1
    [] s = "Active" -> 2
    [] s = "Completed" -> 3

\* C28 -- A project's status is Created, Funded, Active or Completed, never
\* Cancelled.  A call changes it only from Created to Funded (fundProject by
\* the client), from Funded to Active (submitMilestone by the freelancer) or
\* from Active to Completed (the return of a payment of the project); the
\* only other change is the undoing of a call whose transfer failed.
\* Between states with no call in progress the status advances by at most
\* one stage and never moves back, and a Completed project stays Completed.
C28_Statuses ==
  \A p \in DOMAIN projects :
    projects[p].status \in {"Created", "Funded", "Active", "Completed"}

C28_Changes ==
  \A p \in DOMAIN projects \cap DOMAIN projects' :
    projects'[p].status # projects[p].status =>
      IF TransferFails
      THEN projects'[p].status = Top.saved.projects[p].status
      ELSE \/ /\ projects[p].status = "Created" /\ projects'[p].status = "Funded"
              /\ fundProject(projects[p].client, p, projects[p].totalBudget)
           \/ /\ projects[p].status = "Funded" /\ projects'[p].status = "Active"
              /\ \E m \in MilestoneIds :
                   submitMilestone(projects[p].freelancer, p, m)
           \/ /\ projects[p].status = "Active" /\ projects'[p].status = "Completed"
              /\ TransferSucceeds /\ Top.projectId = p

C28_Forward ==
  \A p \in DOMAIN CommittedProjects :
    LET r == ProjectRank(CommittedProjects[p].status)
        t == ProjectRank(CommittedProjects'[p].status)
    IN
    /\ t \in {r, r + 1}
    /\ r = 3 => (projects[p].status = "Completed"
                 /\ projects'[p].status = "Completed")

C28_Theorem ==
  [](C28_Statuses) /\ [][C28_Changes]_vars /\ [][C28_Forward]_vars

\* One project has gone through all four stages and is Completed while
\* another has been funded and waits for its first submission.
C28_Witness ==
  /\ Quiescent
  /\ \E p, q \in DOMAIN projects :
       /\ projects[p].status = "Completed"
       /\ BagIn(<<"ProjectFunded", p, projects[p].totalBudget>>, events)
       /\ BagIn(<<"ProjectCompleted", p>>, events)
       /\ projects[q].status = "Funded"

CommittedDisputes ==
  IF stack = << >> THEN disputes ELSE stack[1].saved.disputes

\* The fields of project record q, milestone table n and dispute record e
\* that are set at creation are those of p, m and d.
SameProject(p, q) ==
  /\ q.client = p.client /\ q.freelancer = p.freelancer
  /\ q.arbitrator = p.arbitrator /\ q.totalBudget = p.totalBudget
  /\ q.milestoneCount = p.milestoneCount

SameAmounts(m, n) ==
  DOMAIN n = DOMAIN m /\ \A i \in DOMAIN m : n[i].amount = m[i].amount

SameDispute(d, e) ==
  /\ e.projectId = d.projectId /\ e.milestoneId = d.milestoneId
  /\ e.raisedBy = d.raisedBy

\* C29 -- No step changes the client, freelancer, arbitrator, totalBudget or
\* milestoneCount of a project, the set or the amounts of its milestones, or
\* the projectId, milestoneId or raisedBy of a dispute; and a project or
\* dispute that exists when no call is in progress exists with these fields
\* ever after.
C29_Step ==
  /\ \A p \in DOMAIN projects \cap DOMAIN projects' :
       /\ SameProject(projects[p], projects'[p])
       /\ SameAmounts(milestones[p], milestones'[p])
  /\ \A d \in DOMAIN disputes \cap DOMAIN disputes' :
       SameDispute(disputes[d], disputes'[d])

C29_Kept ==
  /\ \A p \in DOMAIN CommittedProjects :
       /\ p \in DOMAIN projects /\ p \in DOMAIN projects'
       /\ p \in DOMAIN CommittedProjects'
       /\ SameProject(CommittedProjects[p], CommittedProjects'[p])
       /\ SameAmounts(CommittedMilestones[p], CommittedMilestones'[p])
  /\ \A d \in DOMAIN CommittedDisputes :
       /\ d \in DOMAIN disputes' /\ d \in DOMAIN CommittedDisputes'
       /\ SameDispute(CommittedDisputes[d], CommittedDisputes'[d])

C29_Theorem == [][C29_Step]_vars /\ [][C29_Kept]_vars

\* The project created by alice with bob, carol and amounts [3, 1], after
\* it has been funded and a dispute raised by bob has been resolved with a
\* payment to the freelancer.
C29_Witness ==
  /\ Quiescent
  /\ \E p \in DOMAIN projects :
       /\ SameProject(projects[p],
                      [client |-> "alice", freelancer |-> "bob",
                       arbitrator |-> "carol", totalBudget |-> 4,
                       milestoneCount |-> 2])
       /\ milestones[p][0].amount = 3 /\ milestones[p][1].amount = 1
       /\ projects[p].totalPaid > 0
       /\ \E m \in DOMAIN milestones[p] : released[p][m].freelancer > 0
       /\ \E d \in DOMAIN disputes :
            /\ SameDispute(disputes[d],
                           [projectId |-> p, milestoneId |-> disputes[d].milestoneId,
                            raisedBy |-> "bob"])
            /\ disputes[d].resolved

\* C30 -- A call whose precondition is violated takes no effect: no step of
\* the ledger is a call that one of the checks rejects; a call whose transfer
\* fails leaves the project, milestone and dispute records, both counters,
\* the custodied balance and the parties' balances as they were before the
\* call; and resolveDispute with a percentage above 100 on an open dispute is
\* rejected with "Percentage must be 0-100" while the same call with a valid
\* percentage is still accepted.
C30_NoEffect ==
  \A a \in Addr :
    /\ \A in \in CreateInputs :
         (in[1] = a /\ CreateProjectCheck(in[1], in[2], in[3], in[4]) # OK)
           => ~createProject(in[1], in[2], in[3], in[4])
    /\ \A p \in ProjectIds, v \in Values :
         FundProjectCheck(a, p, v) # OK => ~fundProject(a, p, v)
    /\ \A p \in ProjectIds, m \in MilestoneIds :
         /\ SubmitMilestoneCheck(a, p, m) # OK => ~submitMilestone(a, p, m)
         /\ ApproveMilestoneCheck(a, p, m) # OK => ~approveMilestone(a, p, m)
         /\ RaiseDisputeCheck(a, p, m) # OK => ~raiseDispute(a, p, m)
    /\ \A d \in DisputeIds, pct \in Percentages :
         ResolveDisputeCheck(a, d, pct) # OK => ~resolveDispute(a, d, pct)

C30_FailedTransfer ==
  TransferFails =>
    /\ projects' = Top.saved.projects
    /\ milestones' = Top.saved.milestones
    /\ disputes' = Top.saved.disputes
    /\ projectCounter' = Top.saved.projectCounter
    /\ disputeCounter' = Top.saved.disputeCounter
    /\ balance' = Top.saved.balance
    /\ received' = Top.saved.received
    /\ events' = Top.saved.events
    /\ balance' + SumOver(Addr, received') = balance + SumOver(Addr, received)

C30_Percentage ==
  Quiescent =>
    \A d \in DOMAIN disputes :
      ~disputes[d].resolved =>
        LET r == projects[disputes[d].projectId].arbitrator IN
        /\ ResolveDisputeCheck(r, d, 101) = "Percentage must be 0-100"
        /\ \A pct \in {0, 50, 100} : ResolveDisputeCheck(r, d, pct) = OK

C30_Theorem ==
  [][C30_NoEffect]_vars /\ [][C30_FailedTransfer]_vars /\ [](C30_Percentage)

\* An open dispute after a resolveDispute whose payment to the freelancer
\* failed: everything is in custody again, a percentage of 101 is rejected
\* and 50 is accepted.
C30_Witness ==
  /\ Quiescent
  /\ lastError = "Freelancer payment failed"
  /\ \E d \in DOMAIN disputes :
       /\ ~disputes[d].resolved
       /\ DisputedMilestone(milestones, d).status = "Disputed"
       /\ balance = projects[disputes[d].projectId].totalBudget
       /\ ResolveDisputeCheck(projects[disputes[d].projectId].arbitrator, d, 101)
             = "Percentage must be 0-100"
       /\ ResolveDisputeCheck(projects[disputes[d].projectId].arbitrator, d, 50)
             = OK

\* totalPaid of every project that exists before the step is as before.
TotalPaidUnchanged ==
  \A p \in DOMAIN projects :
    p \in DOMAIN projects' /\ projects'[p].totalPaid = projects[p].totalPaid

\* C31 -- The custodied balance changes only in fundProject (it rises by
\* exactly the project's totalBudget), in approveMilestone (it falls by
\* exactly the milestone's amount) and in resolveDispute (it falls by exactly
\* the freelancerAmount plus the clientAmount that the resolution event
\* reports), or goes back to its value before a call whose transfer failed;
\* createProject, submitMilestone and raiseDispute change neither the
\* custodied balance nor any project's totalPaid.
C31_Step ==
  /\ \A a \in Addr :
       /\ \A in \in CreateInputs :
            (in[1] = a /\ createProject(in[1], in[2], in[3], in[4]))
              => (balance' = balance /\ TotalPaidUnchanged)
       /\ \A p \in ProjectIds, m \in MilestoneIds :
            (submitMilestone(a, p, m) \/ raiseDispute(a, p, m))
              => (balance' = balance /\ TotalPaidUnchanged)
       /\ \A p \in ProjectIds, v \in Values :
            fundProject(a, p, v)
              => (balance' = balance + projects[p].totalBudget
                  /\ TotalPaidUnchanged)
       /\ \A p \in ProjectIds, m \in MilestoneIds :
            approveMilestone(a, p, m)
              => balance' = balance - milestones[p][m].amount
  /\ (InTransfer("approveMilestone") /\ TransferSucceeds) =>
       /\ balance' = balance
       /\ balance' = Top.saved.balance
                       - Top.saved.milestones[Top.projectId][Top.milestoneId].amount
  /\ (InTransfer("resolveDispute") /\ TransferSucceeds /\ stack' = Pop) =>
       /\ balance' = Top.saved.balance
                       - (Top.freelancerAmount + Top.clientAmount)
       /\ CopiesIn(<<"DisputeResolved", Top.disputeId, Top.projectId,
                     Top.milestoneId, Top.freelancerAmount, Top.clientAmount>>,
                   events')
            = CopiesIn(<<"DisputeResolved", Top.disputeId, Top.projectId,
                         Top.milestoneId, Top.freelancerAmount,
                         Top.clientAmount>>, events) + 1

C31_Only ==
  balance' # balance =>
    \/ \E a \in Addr : GuardedCallBy(a)
    \/ InTransfer("resolveDispute") /\ TransferSucceeds
    \/ TransferFails /\ balance' = Top.saved.balance

C31_Theorem == [][C31_Step /\ C31_Only]_vars

\* All three movements have happened: a project of budget 4 was funded, its
\* milestone of 3 was approved and paid, its milestone of 1 was disputed and
\* resolved, and the custody is empty again.
C31_Witness ==
  /\ Quiescent
  /\ balance = 0
  /\ \E p \in DOMAIN projects :
       /\ projects[p].totalBudget = 4
       /\ BagIn(<<"ProjectFunded", p, 4>>, events)
       /\ BagIn(<<"MilestonePaid", p, 0, projects[p].freelancer, 3>>, events)
       /\ \E d \in DOMAIN disputes :
            /\ disputes[d].projectId = p /\ disputes[d].milestoneId = 1
            /\ disputes[d].resolved
            /\ ReleasedTotal(p, 1) = 1

\* C32 -- No project's totalPaid ever decreases between states in which no
\* call is in progress, and a step raises a project's totalPaid only if it
\* is an accepted approveMilestone of that project (by the milestone's
\* amount) or an accepted resolveDispute of that project with a nonzero
\* freelancer share (by that share); a step lowers it only by undoing a call
\* whose transfer failed.
C32_Step ==
  \A p \in DOMAIN projects \cap DOMAIN projects' :
    /\ projects'[p].totalPaid > projects[p].totalPaid =>
         \/ \E a \in Addr, m \in MilestoneIds :
              /\ approveMilestone(a, p, m)
              /\ projects'[p].totalPaid
                   = projects[p].totalPaid + milestones[p][m].amount
         \/ \E a \in Addr, d \in DisputeIds, pct \in Percentages :
              /\ resolveDispute(a, d, pct)
              /\ disputes[d].projectId = p
              /\ FreelancerAmount(DisputedMilestone(milestones, d).amount, pct) > 0
              /\ projects'[p].totalPaid
                   = projects[p].totalPaid
                       + FreelancerAmount(DisputedMilestone(milestones, d).amount, pct)
    /\ projects'[p].totalPaid < projects[p].totalPaid =>
         /\ TransferFails
         /\ projects'[p].totalPaid = Top.saved.projects[p].totalPaid

C32_Committed ==
  \A p \in DOMAIN CommittedProjects \cap DOMAIN CommittedProjects' :
    CommittedProjects'[p].totalPaid >= CommittedProjects[p].totalPaid

C32_Theorem == [][C32_Step /\ C32_Committed]_vars

\* totalPaid has risen to 3 by the payment of the first milestone in full to
\* the freelancer, and the dispute on the second milestone, resolved with a
\* freelancer share of 0, has left it at 3.
C32_Witness ==
  /\ Quiescent
  /\ \E p \in DOMAIN projects :
       /\ projects[p].totalPaid = 3
       /\ milestones[p][0].status = "Paid" /\ released[p][0].client = 0
       /\ \E d \in DOMAIN disputes :
            /\ disputes[d].projectId = p /\ disputes[d].milestoneId = 1
            /\ disputes[d].resolved
            /\ released[p][1] = [freelancer |-> 0, client |-> 1]

\* C33 -- For every existing project the project-balance query succeeds and
\* returns totalBudget - totalPaid: totalBudget while the project is Funded,
\* and lower by exactly the milestone's amount after each approved milestone.
\* The project-details, milestone-details and project-balance queries fail
\* with "Project does not exist" for an id that was never created, and
\* milestone-details fails with "Milestone does not exist" for an index
\* greater than or equal to milestoneCount and succeeds below it.
C33_Queries ==
  \A p \in ProjectIds :
    IF p < projectCounter
    THEN /\ GetProjectBalanceCheck(p) = OK
         /\ getProjectBalance(p) + getProjectDetails(p)[5]
               = getProjectDetails(p)[4]
         /\ getProjectBalance(p) >= 0
         /\ projects[p].status = "Funded" =>
               getProjectBalance(p) = projects[p].totalBudget
         /\ GetProjectDetailsCheck(p) = OK
         /\ \A m \in MilestoneIds :
              IF m >= projects[p].milestoneCount
              THEN GetMilestoneDetailsCheck(p, m) = "Milestone does not exist"
              ELSE /\ GetMilestoneDetailsCheck(p, m) = OK
                   /\ getMilestoneDetails(p, m)
                        = <<milestones[p][m].amount, milestones[p][m].status>>
    ELSE /\ GetProjectBalanceCheck(p) = "Project does not exist"
         /\ GetProjectDetailsCheck(p) = "Project does not exist"
         /\ \A m \in MilestoneIds :
              GetMilestoneDetailsCheck(p, m) = "Project does not exist"

C33_Approved ==
  \A a \in Addr, p \in ProjectIds, m \in MilestoneIds :
    approveMilestone(a, p, m) =>
      getProjectBalance(p)' = getProjectBalance(p) - getMilestoneDetails(p, m)[1]

C33_Theorem == [](C33_Queries) /\ [][C33_Approved]_vars

\* Project 0 of budget 4 after the approval of its milestone of 3: the query
\* returns 1; milestone index 2 does not exist; project 1 was never created.
C33_Witness ==
  /\ Quiescent
  /\ projectCounter = 1
  /\ getProjectDetails(0)[4] = 4
  /\ getMilestoneDetails(0, 0) = <<3, "Paid">>
  /\ BagIn(<<"MilestoneApproved", 0, 0, 3>>, events)
  /\ getProjectBalance(0) = 1
  /\ getContractBalance = 1
  /\ GetMilestoneDetailsCheck(0, 2) = "Milestone does not exist"
  /\ GetProjectBalanceCheck(1) = "Project does not exist"

\* The amounts of the milestones of project p that are not yet settled, when
\* the project has been funded.
HeldOfProject(p) ==
  IF projects[p].status = "Created" THEN 0
  ELSE SumOver(DOMAIN milestones[p],
               [m \in DOMAIN milestones[p] |->
                  IF milestones[p][m].status \in {"Pending", "Submitted", "Disputed"}
                  THEN milestones[p][m].amount ELSE 0])

\* C34 -- Whenever no call is in progress, the custodied balance equals the
\* sum, over the projects that are not in status Created, of the amounts of
\* their milestones in status Pending, Submitted or Disputed.
C34_Theorem ==
  Quiescent =>
    balance = SumOver(DOMAIN projects, [p \in DOMAIN projects |-> HeldOfProject(p)])

\* Two funded projects: in one the milestone of 3 is paid and the milestone
\* of 1 is still held, in the other the only milestone is in dispute.
C34_Witness ==
  /\ Quiescent
  /\ balance = 2
  /\ \E p, q \in DOMAIN projects :
       /\ milestones[p][0].status = "Paid" /\ milestones[p][0].amount = 3
       /\ milestones[p][1].status \in {"Pending", "Submitted"}
       /\ HeldOfProject(p) = 1
       /\ milestones[q][0].status = "Disputed"
       /\ HeldOfProject(q) = 1

\* The disputes that reference milestone m of project p.
DisputesOf(p, m) ==
  {d \in DOMAIN disputes :
     disputes[d].projectId = p /\ disputes[d].milestoneId = m}

OpenDisputesOf(p, m) == {d \in DisputesOf(p, m) : ~disputes[d].resolved}

\* C35 -- Whenever no call is in progress, a milestone is in status Disputed
\* if and only if exactly one unresolved dispute references it; in every
\* state every milestone is referenced by at most one dispute, resolved or
\* not; and resolveDispute never answers "Milestone not disputed": the
\* milestone of every existing unresolved dispute is Disputed.
C35_Disputed ==
  Quiescent =>
    \A p \in DOMAIN milestones : \A m \in DOMAIN milestones[p] :
      /\ milestones[p][m].status = "Disputed"
           <=> Cardinality(OpenDisputesOf(p, m)) = 1
      /\ milestones[p][m].status # "Disputed" => OpenDisputesOf(p, m) = {}

C35_AtMostOne ==
  \A p \in DOMAIN milestones : \A m \in DOMAIN milestones[p] :
    Cardinality(DisputesOf(p, m)) <= 1

C35_Unreachable ==
  /\ \A d \in DOMAIN disputes :
       ~disputes[d].resolved =>
         DisputedMilestone(milestones, d).status = "Disputed"
  /\ \A a \in Addr, d \in DisputeIds, pct \in Percentages :
       ResolveDisputeCheck(a, d, pct) # "Milestone not disputed"

C35_Theorem == C35_Disputed /\ C35_AtMostOne /\ C35_Unreachable

\* Two disputes on the two milestones of one project: the first is resolved
\* and its milestone is settled, the second is open and its milestone is
\* Disputed.
C35_Witness ==
  /\ Quiescent
  /\ \E p \in DOMAIN projects : \E m, n \in DOMAIN milestones[p] :
       /\ m # n
       /\ Cardinality(DisputesOf(p, m)) = 1 /\ OpenDisputesOf(p, m) = {}
       /\ milestones[p][m].status \in {"Paid", "Refunded"}
       /\ Cardinality(OpenDisputesOf(p, n)) = 1
       /\ milestones[p][n].status = "Disputed"

\* C36 -- Whenever no call is in progress, the status of a project
\* constrains its milestones: in a Created or Funded project every milestone
\* is Pending; in an Active project at least one milestone is not Pending; in
\* a Completed project every milestone is Paid and the client has received
\* no share of any of them.
C36_Theorem ==
  Quiescent =>
    \A p \in DOMAIN projects :
      /\ projects[p].status \in {"Created", "Funded"} =>
           \A m \in DOMAIN milestones[p] : milestones[p][m].status = "Pending"
      /\ projects[p].status = "Active" =>
           \E m \in DOMAIN milestones[p] : milestones[p][m].status # "Pending"
      /\ projects[p].status = "Completed" =>
           \A m \in DOMAIN milestones[p] :
             /\ milestones[p][m].status = "Paid"
             /\ released[p][m].client = 0
             /\ released[p][m].freelancer = milestones[p][m].amount

\* One project is Completed after its dispute was resolved wholly for the
\* freelancer, another is Active with a Submitted milestone.
C36_Witness ==
  /\ Quiescent
  /\ \E p, q \in DOMAIN projects :
       /\ projects[p].status = "Completed"
       /\ \E d \in DOMAIN disputes : disputes[d].projectId = p /\ disputes[d].resolved
       /\ projects[q].status = "Active"
       /\ \E m \in DOMAIN milestones[q] : milestones[q][m].status = "Submitted"

\* C37 -- No milestone is in status Approved in any state, neither between
\* calls nor while a transfer is in progress (the state a re-entrant call
\* sees): approveMilestone replaces Approved by Paid before its transfer, and
\* the "Milestone not approved" check of the release step passes in every
\* accepted approveMilestone.
C37_NeverApproved ==
  /\ \A p \in DOMAIN milestones : \A m \in DOMAIN milestones[p] :
       milestones[p][m].status # "Approved"
  /\ \A i \in 1..Len(stack) :
       \A p \in DOMAIN stack[i].saved.milestones :
         \A m \in DOMAIN stack[i].saved.milestones[p] :
           stack[i].saved.milestones[p][m].status # "Approved"
  /\ InTransfer("approveMilestone") =>
       milestones[Top.projectId][Top.milestoneId].status = "Paid"

C37_Released ==
  /\ \A a \in Addr, p \in ProjectIds, m \in MilestoneIds :
       ApproveMilestoneCheck(a, p, m) = OK =>
         ReleaseCheck([milestones EXCEPT ![p][m].status = "Approved"], p, m) = OK
  /\ lastError # "Milestone not approved"

C37_Theorem == C37_NeverApproved /\ C37_Released

\* The transfer of an approveMilestone is in progress and a re-entrant call
\* has been made since it began: the milestone, Submitted when the call
\* began, is already Paid.
C37_Witness ==
  /\ InTransfer("approveMilestone")
  /\ Top.saved.milestones[Top.projectId][Top.milestoneId].status = "Submitted"
  /\ milestones[Top.projectId][Top.milestoneId].status = "Paid"
  /\ txCount > Top.saved.txCount + 1

\* Project p has its client as arbitrator.
OwnArbitrator(p) == projects[p].arbitrator = projects[p].client

\* C38 -- createProject accepts an arbitrator equal to the caller and an
\* arbitrator equal to the freelancer.  In a project whose arbitrator is its
\* client, the client's raiseDispute is accepted on every Submitted
\* milestone, the client's resolveDispute with 0 is accepted on every open
\* dispute (outside a guarded call), and that resolveDispute sends the
\* milestone's full amount to the client and nothing to the freelancer; no
\* call by another account is needed in between.
C38_Accepted ==
  /\ \A in \in CreateInputs :
       (in[3] \in {in[1], in[2]} /\ in[2] \in Addr \ {in[1]}
          /\ Len(in[4]) > 0 /\ (\A i \in 1..Len(in[4]) : in[4][i] > 0))
         => CreateProjectCheck(in[1], in[2], in[3], in[4]) = OK
  /\ \A p \in DOMAIN projects : \A m \in DOMAIN milestones[p] :
       (OwnArbitrator(p) /\ milestones[p][m].status = "Submitted")
         => RaiseDisputeCheck(projects[p].client, p, m) = OK
  /\ \A d \in DOMAIN disputes :
       (OwnArbitrator(disputes[d].projectId) /\ ~disputes[d].resolved /\ ~entered)
         => ResolveDisputeCheck(projects[disputes[d].projectId].client, d, 0) = OK

C38_Refund ==
  \A a \in Addr, d \in DisputeIds :
    resolveDispute(a, d, 0) =>
      LET p == disputes[d].projectId
          m == disputes[d].milestoneId
      IN
      /\ a = projects[p].arbitrator
      /\ milestones'[p][m].status = "Refunded"
      /\ received'[projects[p].client]
            = received[projects[p].client] + milestones[p][m].amount
      /\ received'[projects[p].freelancer] = received[projects[p].freelancer]
           \/ projects[p].freelancer = projects[p].client
      /\ balance' = balance - milestones[p][m].amount
      /\ stack'[Len(stack')].to = projects[p].client
      /\ stack'[Len(stack')].clientAmount = milestones[p][m].amount
      /\ stack'[Len(stack')].freelancerAmount = 0

C38_Theorem == [](C38_Accepted) /\ [][C38_Refund]_vars

\* bob is client and arbitrator of a project of one milestone of 1 with
\* alice; after alice's submission bob has raised the dispute and resolved it
\* with 0: the milestone is Refunded, bob has the 1 back, alice has nothing.
C38_Witness ==
  /\ Quiescent
  /\ \E p \in DOMAIN projects : \E d \in DOMAIN disputes :
       /\ projects[p].client = "bob" /\ OwnArbitrator(p)
       /\ projects[p].freelancer = "alice"
       /\ disputes[d] = [projectId |-> p, milestoneId |-> 0,
                         raisedBy |-> "bob", resolved |-> TRUE]
       /\ milestones[p][0] = [amount |-> 1, status |-> "Refunded"]
       /\ released[p][0] = [freelancer |-> 0, client |-> 1]
       /\ received = [x \in Addr |-> IF x = "bob" THEN 1 ELSE 0]
       /\ balance = 0
       /\ projectCounter = 1
       /\ txCount = 5

\* C39 -- When every outbound transfer succeeds, no dispute is raised, and
\* the client's fundProject and approveMilestone and the freelancer's
\* submitMilestone are weakly fair, every created project eventually reaches
\* status Completed; and a project that is Completed has totalPaid equal to
\* totalBudget, every milestone Paid, and none of its funds left in custody.
C39_Eventually ==
  \A p \in ProjectIds :
    (p \in DOMAIN projects)
      ~> (p \in DOMAIN projects /\ projects[p].status = "Completed")

C39_Completed ==
  \A p \in DOMAIN projects :
    projects[p].status = "Completed" =>
      /\ projects[p].totalPaid = projects[p].totalBudget
      /\ ReleasedOfProject(p) = projects[p].totalBudget
      /\ HeldOfProject(p) = 0

C39_Theorem == C39_Eventually /\ [](C39_Completed)

\* The project of two milestones, budget 4, is Completed: both milestones
\* paid to the freelancer and nothing left in custody.
C39_Witness ==
  /\ Quiescent
  /\ \E p \in DOMAIN projects :
       /\ projects[p].milestoneCount = 2
       /\ projects[p].status = "Completed"
       /\ projects[p].totalPaid = 4 /\ projects[p].totalBudget = 4
       /\ received[projects[p].freelancer] = 4
  /\ balance = 0
  /\ disputes = << >>

====
